---- MODULE Spec2Model ----
(***************************************************************************)
(* Model of the /run_python handler of app/routes.py: request validation,  *)
(* the temporary workspace, the child process run through subprocess.run,  *)
(* the timeout path, the output truncation (_truncate) and the response.   *)
(*                                                                         *)
(* Conventions.                                                            *)
(*  - A text (Python str) is a sequence of code points; a byte string is a *)
(*    sequence of numbers 0..255.                                          *)
(*  - A Python float is FNum(n), n counted in tenths (0.5 is FNum(5)), or  *)
(*    FNaN.  A JSON number is JInt(n) (the integer n) or JFloat(n) (n      *)
(*    tenths).                                                             *)
(*  - The library calls the handler makes (subprocess.run, tempfile.       *)
(*    TemporaryDirectory, str.encode, bytes.decode, float, int) are        *)
(*    modelled by their CPython behaviour at the call site.                *)
(***************************************************************************)
EXTENDS Integers, Sequences, FiniteSets, TLC

(***************************************************************************)
(* JSON values of the request body                                         *)
(***************************************************************************)
Absent == [t |-> "absent"]

JNull == [t |-> "null"]

JBool(b) == [t |-> "bool", v |-> b]

JInt(n) == [t |-> "int", v |-> n]

JFloat(n) == [t |-> "float", v |-> n]

JNaN == [t |-> "nan"]

JStr(s) == [t |-> "str", v |-> s]

JList(l) == [t |-> "list", v |-> l]

JObj(n) == [t |-> "obj", n |-> n]

\* Python floats: a finite value in tenths, or NaN.
FNum(n) == [nan |-> FALSE, v |-> n]

FNaN == [nan |-> TRUE, v |-> 0]

\* data.get(k): None when the key is missing.
DictGet(d, k) == IF d[k] = Absent THEN JNull ELSE d[k]

\* Mutant of DictGetDefault: the default is not applied.
DictGetDefault_NoDefault(d, k, default) == DictGet(d, k)

\* data.get(k, default)
DictGetDefault(d, k, default) == IF d[k] = Absent THEN default ELSE d[k]

\* isinstance(v, str)
IsStr(v) == v.t = "str"

\* isinstance(v, list)
IsList(v) == v.t = "list"

\* Python truth value of a JSON value (the left operand of `or`).
Truthy(v) ==
    CASE v.t = "null" -> FALSE
      [] v.t = "absent" -> FALSE
      [] v.t = "bool" -> v.v
      [] v.t = "int" -> v.v # 0
      [] v.t = "float" -> v.v # 0
      [] v.t = "nan" -> TRUE
      [] v.t = "str" -> v.v # <<>>
      [] v.t = "list" -> v.v # <<>>
      [] v.t = "obj" -> v.n # 0

\* a or b
PyOr(a, b) == IF Truthy(a) THEN a ELSE b

(***************************************************************************)
(* Text helpers: str.strip, float(str), int(str), str(x)                   *)
(***************************************************************************)
\* Code points str.strip() removes (str.isspace).
IsSpace(c) == c \in {9, 10, 11, 12, 13, 28, 29, 30, 31, 32, 133, 160}

IsDigit(c) == c >= 48 /\ c <= 57

RECURSIVE LStrip(_)
LStrip(s) == IF s # <<>> /\ IsSpace(Head(s)) THEN LStrip(Tail(s)) ELSE s

RECURSIVE RStrip(_)
RStrip(s) ==
    IF s # <<>> /\ IsSpace(s[Len(s)]) THEN RStrip(SubSeq(s, 1, Len(s) - 1)) ELSE s

\* Mutant of Strip: the text is compared without stripping.
Strip_None(s) == s

\* s.strip()
Strip(s) == RStrip(LStrip(s))

AllDigits(s) == s # <<>> /\ \A i \in 1..Len(s) : IsDigit(s[i])

RECURSIVE DigitsValue(_)
DigitsValue(s) ==
    IF s = <<>> THEN 0
    ELSE 10 * DigitsValue(SubSeq(s, 1, Len(s) - 1)) + (s[Len(s)] - 48)

\* Sign and magnitude part of a stripped numeric literal.
SignOf(s) == IF s # <<>> /\ s[1] = 45 THEN -1 ELSE 1

Unsigned(s) == IF s # <<>> /\ s[1] \in {43, 45} THEN Tail(s) ELSE s

\* int(s) for a str: optional sign and decimal digits between white space.
\* Result [ok, v]; ok = FALSE stands for ValueError.
ParseInt(s) ==
    LET u == Unsigned(Strip(s))
    IN  IF AllDigits(u) THEN [ok |-> TRUE, v |-> SignOf(Strip(s)) * DigitsValue(u)]
        ELSE [ok |-> FALSE, v |-> 0]

\* float(s) for a str, for literals "digits", "digits.digit" and "nan"
\* (the literals the model's requests use); everything else is ValueError.
ParseFloat(s) ==
    LET t == Strip(s)
        u == Unsigned(t)
        n == Len(u)
    IN  IF u = <<110, 97, 110>> THEN [ok |-> TRUE, f |-> FNaN]
        ELSE IF AllDigits(u) THEN [ok |-> TRUE, f |-> FNum(SignOf(t) * 10 * DigitsValue(u))]
        ELSE IF n >= 3 /\ u[n - 1] = 46 /\ IsDigit(u[n]) /\ AllDigits(SubSeq(u, 1, n - 2))
             THEN [ok |-> TRUE,
                   f |-> FNum(SignOf(t) * (10 * DigitsValue(SubSeq(u, 1, n - 2)) + (u[n] - 48)))]
        ELSE [ok |-> FALSE, f |-> FNum(0)]

\* float(v): [ok, f]; ok = FALSE stands for TypeError / ValueError.
ToFloat(v) ==
    CASE v.t = "int" -> [ok |-> TRUE, f |-> FNum(10 * v.v)]
      [] v.t = "float" -> [ok |-> TRUE, f |-> FNum(v.v)]
      [] v.t = "nan" -> [ok |-> TRUE, f |-> FNaN]
      [] v.t = "bool" -> [ok |-> TRUE, f |-> FNum(IF v.v THEN 10 ELSE 0)]
      [] v.t = "str" -> ParseFloat(v.v)
      [] OTHER -> [ok |-> FALSE, f |-> FNum(0)]

\* Truncation toward zero of n tenths.
TruncTenths(n) == IF n >= 0 THEN n \div 10 ELSE -((-n) \div 10)

\* int(v): [ok, v]; ok = FALSE stands for TypeError / ValueError.
ToInt(v) ==
    CASE v.t = "int" -> [ok |-> TRUE, v |-> v.v]
      [] v.t = "float" -> [ok |-> TRUE, v |-> TruncTenths(v.v)]
      [] v.t = "bool" -> [ok |-> TRUE, v |-> IF v.v THEN 1 ELSE 0]
      [] v.t = "str" -> ParseInt(v.v)
      [] OTHER -> [ok |-> FALSE, v |-> 0]

RECURSIVE NatDigits(_)
NatDigits(n) == IF n < 10 THEN <<48 + n>> ELSE NatDigits(n \div 10) \o <<48 + (n % 10)>>

\* str(a) for the JSON values a list of args holds.
PyStr(a) ==
    CASE a.t = "str" -> a.v
      [] a.t = "int" -> IF a.v < 0 THEN <<45>> \o NatDigits(-a.v) ELSE NatDigits(a.v)
      [] a.t = "bool" -> IF a.v THEN <<84, 114, 117, 101>> ELSE <<70, 97, 108, 115, 101>>
      [] a.t = "null" -> <<78, 111, 110, 101>>

(***************************************************************************)
(* UTF-8: str.encode("utf-8", errors="replace") and                        *)
(* bytes.decode("utf-8", errors="ignore")                                  *)
(***************************************************************************)
IsSurrogate(c) == c >= 55296 /\ c <= 57343

\* The bytes of one code point; a lone surrogate is replaced by "?".
EncodeChar(c) ==
    IF c < 128 THEN <<c>>
    ELSE IF c < 2048 THEN <<192 + (c \div 64), 128 + (c % 64)>>
    ELSE IF IsSurrogate(c) THEN <<63>>
    ELSE IF c < 65536
         THEN <<224 + (c \div 4096), 128 + ((c \div 64) % 64), 128 + (c % 64)>>
    ELSE <<240 + (c \div 262144), 128 + ((c \div 4096) % 64),
           128 + ((c \div 64) % 64), 128 + (c % 64)>>

RECURSIVE EncodeRange(_, _, _)
EncodeRange(s, lo, hi) ==
    IF lo > hi THEN <<>>
    ELSE IF lo = hi THEN EncodeChar(s[lo])
    ELSE LET mid == (lo + hi) \div 2
         IN  EncodeRange(s, lo, mid) \o EncodeRange(s, mid + 1, hi)

\* s.encode("utf-8", errors="replace")
Encode(s) == EncodeRange(s, 1, Len(s))

IsCont(b) == b >= 128 /\ b <= 191

\* Number of bytes the lead byte b announces; 0 when b cannot start a character.
LeadWidth(b) ==
    IF b < 128 THEN 1
    ELSE IF b >= 194 /\ b <= 223 THEN 2
    ELSE IF b >= 224 /\ b <= 239 THEN 3
    ELSE IF b >= 240 /\ b <= 244 THEN 4
    ELSE 0

\* The code point of the w bytes starting at i.
CodePointAt(bs, i, w) ==
    IF w = 1 THEN bs[i]
    ELSE IF w = 2 THEN (bs[i] - 192) * 64 + (bs[i + 1] - 128)
    ELSE IF w = 3 THEN (bs[i] - 224) * 4096 + (bs[i + 1] - 128) * 64 + (bs[i + 2] - 128)
    ELSE (bs[i] - 240) * 262144 + (bs[i + 1] - 128) * 4096
         + (bs[i + 2] - 128) * 64 + (bs[i + 3] - 128)

MinCodePoint(w) == IF w = 1 THEN 0 ELSE IF w = 2 THEN 128 ELSE IF w = 3 THEN 2048 ELSE 65536

\* A complete, well-formed character starts at byte i.
IsCharStart(bs, i) ==
    LET w == LeadWidth(bs[i])
    IN  /\ w > 0
        /\ i + w - 1 <= Len(bs)
        /\ \A j \in (i + 1)..(i + w - 1) : IsCont(bs[j])
        /\ LET c == CodePointAt(bs, i, w)
           IN  c >= MinCodePoint(w) /\ c <= 1114111 /\ ~IsSurrogate(c)

RECURSIVE DecodeRange(_, _, _)
DecodeRange(bs, lo, hi) ==
    IF lo > hi THEN <<>>
    ELSE IF lo = hi
         THEN IF IsCharStart(bs, lo) THEN <<CodePointAt(bs, lo, LeadWidth(bs[lo]))>> ELSE <<>>
    ELSE LET mid == (lo + hi) \div 2
         IN  DecodeRange(bs, lo, mid) \o DecodeRange(bs, mid + 1, hi)

\* bs.decode("utf-8", errors="ignore"): the bytes that belong to no complete
\* character are dropped.
DecodeIgnore(bs) == DecodeRange(bs, 1, Len(bs))

\* Every byte belongs to a complete character: strict decoding succeeds.
ValidUtf8(bs) ==
    \A i \in 1..Len(bs) :
        \/ IsCharStart(bs, i)
        \/ /\ IsCont(bs[i])
           /\ \E j \in (i - 3)..(i - 1) :
                  j >= 1 /\ IsCharStart(bs, j) /\ j + LeadWidth(bs[j]) > i

(***************************************************************************)
(* Program constants of run_python                                         *)
(***************************************************************************)
DefaultTimeoutSec == 5

FloorTimeoutSec == 1

MaxTimeoutSec == 15

DefaultLimitBytes == 32768

MinLimitBytes == 1024

MaxLimitBytes == 262144

\* A whole number of seconds as a float.
Seconds(n) == FNum(10 * n)

(***************************************************************************)
(* Bounds of the model                                                     *)
(***************************************************************************)
\* Length of the filler that brings an output next to the smallest ceiling.
FillLen == 1023

\* Largest number of code points after the filler in a checked text.
MaxTail == 2

\* The wall clock when the request arrives, and the largest reading, in half
\* milliseconds.
WallAtRequest == 2

MaxWall == 3

\* Number of concurrent invocations, and of directory names mkdtemp may draw.
NumInvocations == 2

NumDirNames == 2

\* Steps inside subprocess.run: chunks of stdin text to write, chunks a pipe
\* holds before a writer blocks, chunks of output the child produces.
MaxStdinChunks == 2

PipeCap == 1

MaxOutChunks == 2

(***************************************************************************)
(* _truncate, the two clamps                                               *)
(***************************************************************************)
\* routes.py 951-954: the two `if`s on timeout_sec.  Comparisons with NaN
\* are false.
ClampTimeout(f) ==
    LET a == IF ~f.nan /\ f.v <= 0 THEN Seconds(FloorTimeoutSec) ELSE f
    IN  IF ~a.nan /\ a.v > 10 * MaxTimeoutSec THEN Seconds(MaxTimeoutSec) ELSE a

\* Mutant of ClampLimit: the upper `if` is missing.
ClampLimit_NoUpper(n) == IF n < MinLimitBytes THEN MinLimitBytes ELSE n

\* routes.py 960-963: the two `if`s on limit_bytes.
ClampLimit(n) ==
    LET a == IF n < MinLimitBytes THEN MinLimitBytes ELSE n
    IN  IF a > MaxLimitBytes THEN MaxLimitBytes ELSE a

\* Mutant of _truncate: the slice keeps one byte more than the ceiling.
_truncate_OffByOne(s, limit) ==
    LET bs == Encode(s)
    IN  IF Len(bs) <= limit THEN <<s, FALSE>>
        ELSE <<DecodeIgnore(SubSeq(bs, 1, limit + 1)), TRUE>>

\* Mutant of _truncate: the comparison with the ceiling is strict.
_truncate_StrictCompare(s, limit) ==
    LET bs == Encode(s)
    IN  IF Len(bs) < limit THEN <<s, FALSE>>
        ELSE <<DecodeIgnore(SubSeq(bs, 1, limit)), TRUE>>

\* Mutant of _truncate: the cut also drops the last whole character.
_truncate_DropsLastChar(s, limit) ==
    LET bs == Encode(s)
        cut == DecodeIgnore(SubSeq(bs, 1, limit))
    IN  IF Len(bs) <= limit THEN <<s, FALSE>>
        ELSE <<IF cut = <<>> THEN cut ELSE SubSeq(cut, 1, Len(cut) - 1), TRUE>>

\* _truncate(s) with the enclosing limit_bytes: <<text, truncated>>.
_truncate(s, limit) ==
    LET bs == Encode(s)
    IN  IF Len(bs) <= limit THEN <<s, FALSE>>
        ELSE <<DecodeIgnore(SubSeq(bs, 1, limit)), TRUE>>

(***************************************************************************)
(* State                                                                   *)
(***************************************************************************)
VARIABLES
    pc,            \* position of the handler in run_python
    data,          \* the request body: a record of the five fields
    mswindows,     \* the platform subprocess runs on (subprocess._mswindows)
    args_list,     \* local args_list: sequence of texts
    stdin_text,    \* local stdin_text: JNull or JStr
    timeout_sec,   \* local timeout_sec: a float
    limit_bytes,   \* local limit_bytes: an integer
    tmpdir,        \* the temporary directory: "none", "exists", "removed"
    files,         \* names of the files in the temporary directory
    child,         \* the child process: "none", "running", "exited", "killed"
    returncode,    \* exit status of the child
    desc,          \* a process the child spawned: "none", "pipes", "detached", "dead"
    proc,          \* how the child was started (arguments of subprocess.run)
    outBuf,        \* bytes the child has written to its stdout pipe
    errBuf,        \* bytes the child has written to its stderr pipe
    timerFired,    \* the timeout of subprocess.run has expired
    pending,       \* what leaves the `with` block: a response or an exception
    response,      \* what run_python returned
    dirsCreated,   \* number of temporary directories created for the request
    procsLaunched, \* number of child processes started for the request
    wall,          \* the wall clock time.time() reads, in half milliseconds
    start,         \* local start: the clock reading of line 980
    tmproot,       \* two invocations: the directories under the temporary root
    invs,          \* two invocations: the state of each
    comm,          \* the steps inside subprocess.run: pipes, child, position
    _DB_INIT_DONE, \* module global _DB_INIT_DONE of routes.py
    hook,          \* position of each request thread in the hook _init_db
    ensureCalls,   \* number of calls of ensure_tables made by the hook
    lastEnsure,    \* how the latest finished ensure_tables call ended
    requests,      \* number of requests the server has taken
    annot,         \* annotate_code: its locals and position after the model's reply
    batch          \* collect_company_fetch_details: its locals and position

vars == <<pc, data, mswindows, args_list, stdin_text, timeout_sec, limit_bytes, tmpdir,
          files, child, returncode, desc, proc, outBuf, errBuf, timerFired, pending,
          response, dirsCreated, procsLaunched, wall, start, tmproot, invs, comm,
          _DB_INIT_DONE, hook, ensureCalls, lastEnsure, requests, annot, batch>>

\* The state of the other handlers of routes.py.
others == <<_DB_INIT_DONE, hook, ensureCalls, lastEnsure, requests, annot, batch>>

pair == <<tmproot, invs>>

locals == <<args_list, stdin_text, timeout_sec, limit_bytes>>

workspace == <<tmpdir, files, dirsCreated>>

process == <<child, returncode, desc, proc, outBuf, errBuf, timerFired, procsLaunched>>

Fields == {"code", "args", "stdin", "timeout_sec", "limit_bytes"}

NoResponse == [http |-> 0]

NoPending == [exc |-> "", resp |-> NoResponse]

NoProc == [started |-> FALSE]

\* Values of tmproot and invs while a single invocation is looked at.
NoDirs == <<>>

NoInvs == <<>>

\* Bounds of the hook model: request threads of the server, requests taken.
NumThreads == 2

MaxRequests == 4

Threads == 1..NumThreads

\* The other handlers at rest: the module as imported, no request taken.
OthersIdle ==
    /\ _DB_INIT_DONE = FALSE
    /\ hook = [t \in Threads |-> "idle"]
    /\ ensureCalls = 0
    /\ lastEnsure = "none"
    /\ requests = 0
    /\ annot = <<>>
    /\ batch = <<>>

\* Value of comm while the steps inside subprocess.run are not looked at.
NoComm == <<>>

\* jsonify({"error": kind}), 400
Error400(kind) == [http |-> 400, error |-> kind]

\* jsonify({"error": kind, "detail": detail}), 400
Error400Detail(kind, detail) == [http |-> 400, error |-> kind, detail |-> detail]

\* Mutant of ExecutionFailed: the failure is reported as an exit code.
ExecutionFailed_AsExitCode(e) == [http |-> 500, error |-> "execution_failed", exit_code |-> 1]

\* routes.py 1029-1030: the outer `except Exception as e`.
ExecutionFailed(e) == [http |-> 500, error |-> "execution_failed", detail |-> e]

Returned == pc = "returned"

(***************************************************************************)
(* Validation, routes.py 929-963                                           *)
(***************************************************************************)
Reject(resp) ==
    /\ pc' = "returned"
    /\ response' = resp
    /\ UNCHANGED <<data, mswindows, wall, start, pair, comm, others, locals, workspace, process, pending>>

\* 930-932
CheckCode ==
    /\ pc = "check_code"
    /\ LET code == DictGet(data, "code")
       IN  IF ~IsStr(code) \/ Strip(code.v) = <<>>
           THEN Reject(Error400("code is required"))
           ELSE /\ pc' = "check_args"
                /\ UNCHANGED <<data, mswindows, wall, start, pair, comm, others, locals, workspace, process, pending, response>>

\* 934-940
CheckArgs ==
    /\ pc = "check_args"
    /\ LET args_raw == PyOr(DictGet(data, "args"), JList(<<>>))
       IN  IF ~IsList(args_raw)
           THEN Reject(Error400Detail("invalid_args", "'args' must be a list of strings"))
           ELSE /\ args_list' = [i \in 1..Len(args_raw.v) |-> PyStr(args_raw.v[i])]
                /\ pc' = "check_stdin"
                /\ UNCHANGED <<data, mswindows, wall, start, pair, comm, others, stdin_text, timeout_sec, limit_bytes,
                               workspace, process, pending, response>>

\* Mutant of CheckStdin: the stdin check is skipped.
CheckStdin_NoCheck ==
    /\ pc = "check_stdin"
    /\ stdin_text' = DictGet(data, "stdin")
    /\ pc' = "check_timeout"
    /\ UNCHANGED <<data, mswindows, wall, start, pair, comm, others, args_list, timeout_sec, limit_bytes,
                   workspace, process, pending, response>>

\* 942-944
CheckStdin ==
    /\ pc = "check_stdin"
    /\ LET st == DictGet(data, "stdin")
       IN  IF st # JNull /\ ~IsStr(st)
           THEN Reject(Error400Detail("invalid_stdin", "'stdin' must be a string"))
           ELSE /\ stdin_text' = st
                /\ pc' = "check_timeout"
                /\ UNCHANGED <<data, mswindows, wall, start, pair, comm, others, args_list, timeout_sec, limit_bytes,
                               workspace, process, pending, response>>

\* 947-954
CheckTimeout ==
    /\ pc = "check_timeout"
    /\ LET r == ToFloat(DictGetDefault(data, "timeout_sec", JInt(DefaultTimeoutSec)))
       IN  IF ~r.ok
           THEN Reject(Error400Detail("invalid_timeout", "'timeout_sec' must be a number"))
           ELSE /\ timeout_sec' = ClampTimeout(r.f)
                /\ pc' = "check_limit"
                /\ UNCHANGED <<data, mswindows, wall, start, pair, comm, others, args_list, stdin_text, limit_bytes,
                               workspace, process, pending, response>>

\* 956-963
CheckLimit ==
    /\ pc = "check_limit"
    /\ LET r == ToInt(DictGetDefault(data, "limit_bytes", JInt(DefaultLimitBytes)))
       IN  IF ~r.ok
           THEN Reject(Error400Detail("invalid_limit", "'limit_bytes' must be an integer"))
           ELSE /\ limit_bytes' = ClampLimit(r.v)
                /\ pc' = "mkdtemp"
                /\ UNCHANGED <<data, mswindows, wall, start, pair, comm, others, args_list, stdin_text, timeout_sec,
                               workspace, process, pending, response>>

(***************************************************************************)
(* Workspace and launch, routes.py 981-999                                 *)
(***************************************************************************)
\* sys.executable, the three flags and the name of the source file, as texts.
PythonExe == <<112, 121, 116, 104, 111, 110>>

FlagI == <<45, 73>>

FlagS == <<45, 83>>

FlagB == <<45, 66>>

SrcPath == <<109, 97, 105, 110, 46, 112, 121>>

SrcFile(text) == [name |-> "main.py", content |-> text]

StrayFile == [name |-> "stray", content |-> <<>>]

\* Mutant of Raise: after an exception the code is launched again.
Raise_Retry(e) ==
    /\ pending' = [exc |-> e, resp |-> NoResponse]
    /\ pc' = "launch"

\* An exception leaves the `with` block: __exit__ runs, then the outer except.
Raise(e) ==
    /\ pending' = [exc |-> e, resp |-> NoResponse]
    /\ pc' = "cleanup"

\* A response leaves the `with` block through `return`.
Return(resp) ==
    /\ pending' = [exc |-> "", resp |-> resp]
    /\ pc' = "cleanup"

\* 980-982: start = _time.time(), then tempfile.TemporaryDirectory().
\* mkdtemp may fail (OSError); then no directory exists and the outer except
\* answers.
MakeTmpDir ==
    /\ pc = "mkdtemp"
    /\ start' = wall
    /\ \E ok \in BOOLEAN :
          IF ok
          THEN /\ tmpdir' = "exists"
               /\ dirsCreated' = dirsCreated + 1
               /\ pc' = "write_src"
               /\ UNCHANGED response
          ELSE /\ pc' = "returned"
               /\ response' = ExecutionFailed("OSError")
               /\ UNCHANGED <<tmpdir, dirsCreated>>
    /\ UNCHANGED <<data, mswindows, wall, pair, comm, others, locals, files, process, pending>>

\* 983-985: open(src_path, "w", encoding="utf-8") creates the file; f.write
\* raises UnicodeEncodeError for a lone surrogate.
WriteSource ==
    /\ pc = "write_src"
    /\ LET code == data.code.v
       IN  IF \E i \in 1..Len(code) : IsSurrogate(code[i])
           THEN /\ files' = files \cup {SrcFile(<<>>)}
                /\ Raise("UnicodeEncodeError")
           ELSE /\ files' = files \cup {SrcFile(code)}
                /\ pc' = "launch"
                /\ UNCHANGED pending
    /\ UNCHANGED <<data, mswindows, wall, start, pair, comm, others, locals, tmpdir, dirsCreated, process, response>>

\* Mutant of Cmd: the caller's arguments are left out.
Cmd_NoArgs == <<PythonExe, FlagI, FlagS, FlagB, SrcPath>>

\* 987-989
Cmd == <<PythonExe, FlagI, FlagS, FlagB, SrcPath>> \o args_list

HasNul(text) == \E i \in 1..Len(text) : text[i] = 0

\* 992-999: the arguments of subprocess.run, as the child gets them.
LaunchRecord ==
    [started |-> TRUE,
     cmd |-> Cmd,
     cwd |-> "tmpdir",
     input |-> stdin_text,
     stdin |-> IF IsStr(stdin_text) THEN "pipe" ELSE "inherit",
     stdout |-> "pipe",
     stderr |-> "pipe",
     text |-> TRUE,
     timeout |-> timeout_sec]

\* 992-999: subprocess.run starts the child (Popen).  Starting fails with
\* ValueError for an argument with an embedded null byte and may fail with
\* OSError.  stdin is a pipe only when input is not None.
Launch ==
    /\ pc = "launch"
    /\ \E oserror \in BOOLEAN :
          IF oserror \/ \E i \in 1..Len(Cmd) : HasNul(Cmd[i])
          THEN /\ Raise(IF oserror THEN "OSError" ELSE "ValueError")
               /\ UNCHANGED <<child, proc, procsLaunched>>
          ELSE /\ child' = "running"
               /\ procsLaunched' = procsLaunched + 1
               /\ proc' = LaunchRecord
               /\ pc' = "communicate"
               /\ UNCHANGED pending
    /\ UNCHANGED <<data, mswindows, wall, start, pair, comm, others, locals, workspace, returncode, desc, outBuf, errBuf,
                   timerFired, response>>

(***************************************************************************)
(* The child process and what it spawns: the submitted code decides, so    *)
(* every step is a choice of the environment.                              *)
(***************************************************************************)
Fill(n) == [i \in 1..n |-> 65]

\* A text one character longer than the filler, ending in a 3-byte character.
BigText == Fill(FillLen) \o <<8364>>

\* What the child may write to stdout: "hi", a byte that is not UTF-8, a
\* large text.
StdoutChunks == {<<104, 105>>, <<255>>, Encode(BigText)}

\* What the child may write to stderr: "e".
StderrChunks == {<<101>>}

ExitCodes == {0, 1}

DescAlive == desc \in {"pipes", "detached"}

ChildWriteStdout ==
    /\ child = "running" /\ outBuf = <<>>
    /\ \E c \in StdoutChunks : outBuf' = c
    /\ UNCHANGED <<pc, data, mswindows, wall, start, pair, comm, others, locals, workspace, child, returncode, desc, proc,
                   errBuf, timerFired, procsLaunched, pending, response>>

ChildWriteStderr ==
    /\ child = "running" /\ errBuf = <<>>
    /\ \E c \in StderrChunks : errBuf' = c
    /\ UNCHANGED <<pc, data, mswindows, wall, start, pair, comm, others, locals, workspace, child, returncode, desc, proc,
                   outBuf, timerFired, procsLaunched, pending, response>>

\* The child starts another process, which inherits the pipes and the cwd.
ChildSpawn ==
    /\ child = "running" /\ desc = "none"
    /\ desc' = "pipes"
    /\ UNCHANGED <<pc, data, mswindows, wall, start, pair, comm, others, locals, workspace, child, returncode, proc, outBuf,
                   errBuf, timerFired, procsLaunched, pending, response>>

ChildExit ==
    /\ child = "running"
    /\ child' = "exited"
    /\ \E rc \in ExitCodes : returncode' = rc
    /\ UNCHANGED <<pc, data, mswindows, wall, start, pair, comm, others, locals, workspace, desc, proc, outBuf, errBuf,
                   timerFired, procsLaunched, pending, response>>

\* The spawned process closes the pipes it inherited and keeps running.
DescDetach ==
    /\ ~Returned /\ desc = "pipes"
    /\ desc' = "detached"
    /\ UNCHANGED <<pc, data, mswindows, wall, start, pair, comm, others, locals, workspace, child, returncode, proc, outBuf,
                   errBuf, timerFired, procsLaunched, pending, response>>

DescExit ==
    /\ ~Returned /\ DescAlive
    /\ desc' = "dead"
    /\ UNCHANGED <<pc, data, mswindows, wall, start, pair, comm, others, locals, workspace, child, returncode, proc, outBuf,
                   errBuf, timerFired, procsLaunched, pending, response>>

\* The spawned process creates a file in its working directory.
DescWriteFile ==
    /\ ~Returned /\ DescAlive /\ tmpdir = "exists"
    /\ StrayFile \notin files
    /\ files' = files \cup {StrayFile}
    /\ UNCHANGED <<pc, data, mswindows, wall, start, pair, comm, others, locals, tmpdir, dirsCreated, process, pending,
                   response>>

(***************************************************************************)
(* Supervision: subprocess.run(..., capture_output=True, text=True,        *)
(* timeout=timeout_sec), routes.py 991-1028                                *)
(***************************************************************************)
\* Python values an output attribute can hold.
PyNone == [k |-> "none", v |-> <<>>]

PyBytes(b) == [k |-> "bytes", v |-> b]

PyText(s) == [k |-> "str", v |-> s]

\* x or ""
OrEmptyStr(x) == IF x.k = "none" \/ x.v = <<>> THEN PyText(<<>>) ELSE x

RECURSIVE NewlineRange(_, _, _)
NewlineRange(s, lo, hi) ==
    IF lo > hi THEN <<>>
    ELSE IF lo = hi
         THEN IF s[lo] # 13 THEN <<s[lo]>>
              ELSE IF lo < Len(s) /\ s[lo + 1] = 10 THEN <<>> ELSE <<10>>
    ELSE LET mid == (lo + hi) \div 2
         IN  NewlineRange(s, lo, mid) \o NewlineRange(s, mid + 1, hi)

\* Text mode: "\r\n" and "\r" become "\n".
TranslateNewlines(s) == NewlineRange(s, 1, Len(s))

\* The str that text=True makes of the bytes read from a pipe (strict UTF-8).
PipeText(bs) == TranslateNewlines(DecodeIgnore(bs))

\* communicate() returns: the child has exited and nobody holds the write
\* ends of the stdout/stderr pipes.
WaitDone == child = "exited" /\ desc # "pipes"

\* The exception a reader gets from bytes that are not UTF-8.
DecodeFailure == IF mswindows THEN "IndexError" ELSE "UnicodeDecodeError"

\* A call _truncate(x): AttributeError when x is bytes (bytes has no encode).
TruncateCall(x) ==
    IF x.k = "str"
    THEN LET r == _truncate(x.v, limit_bytes)
         IN  [ok |-> TRUE, text |-> r[1], cut |-> r[2]]
    ELSE [ok |-> FALSE, text |-> <<>>, cut |-> FALSE]

\* int(x) of a number of half milliseconds taken as milliseconds: the
\* fraction is dropped, towards zero.
IntMs(h) == IF h >= 0 THEN h \div 2 ELSE -((-h) \div 2)

\* 1006, 1021: int((_time.time() - start) * 1000)
DurationMs == IntMs(wall - start)

\* 1019-1028: the response of a completed run.
SuccessResponse(so, se) ==
    [http |-> 200,
     stdout |-> so.text,
     stderr |-> se.text,
     exit_code |-> returncode,
     truncated |-> [stdout |-> so.cut, stderr |-> se.cut],
     duration_ms |-> DurationMs]

\* 1007-1017: the response of a run that timed out.
TimeoutResponse(so, se) ==
    [http |-> 408,
     error |-> "timeout",
     detail |-> timeout_sec,
     stdout |-> so.text,
     stderr |-> se.text,
     truncated |-> [stdout |-> so.cut, stderr |-> se.cut],
     duration_ms |-> DurationMs]

\* 1000-1017: the except handler, given the TimeoutExpired attributes.
TimeoutHandler(te_stdout, te_stderr) ==
    LET so == TruncateCall(OrEmptyStr(te_stdout))
        se == TruncateCall(OrEmptyStr(te_stderr))
    IN  IF so.ok /\ se.ok THEN Return(TimeoutResponse(so, se))
        ELSE Raise("AttributeError")

\* A NaN timeout makes the first wait of communicate() raise ValueError;
\* run() kills the child and re-raises.
CommunicateFails ==
    /\ pc = "communicate" /\ timeout_sec.nan
    /\ child' = IF child = "running" THEN "killed" ELSE child
    /\ returncode' = IF child = "running" THEN -9 ELSE returncode
    /\ Raise("ValueError")
    /\ UNCHANGED <<data, mswindows, wall, start, pair, comm, others, locals, workspace, desc, proc, outBuf, errBuf,
                   timerFired, procsLaunched, response>>

\* 992-999 returns, then 1019-1028.
RunCompletes ==
    /\ pc = "communicate" /\ ~timeout_sec.nan /\ WaitDone
    /\ IF ValidUtf8(outBuf) /\ ValidUtf8(errBuf)
       THEN LET so == TruncateCall(OrEmptyStr(PyText(PipeText(outBuf))))
                se == TruncateCall(OrEmptyStr(PyText(PipeText(errBuf))))
            IN  Return(SuccessResponse(so, se))
       ELSE Raise(DecodeFailure)
    /\ UNCHANGED <<data, mswindows, wall, start, pair, comm, others, locals, workspace, process, response>>

\* POSIX: communicate() raises TimeoutExpired carrying the bytes read so far
\* (None when nothing was read); run() kills the child, waits for it and
\* re-raises; then 1000-1017.
RunTimesOutPosix ==
    /\ pc = "communicate" /\ ~timeout_sec.nan /\ ~WaitDone /\ ~mswindows
    /\ child' = IF child = "running" THEN "killed" ELSE child
    /\ returncode' = IF child = "running" THEN -9 ELSE returncode
    /\ timerFired' = TRUE
    /\ TimeoutHandler(IF outBuf = <<>> THEN PyNone ELSE PyBytes(outBuf),
                      IF errBuf = <<>> THEN PyNone ELSE PyBytes(errBuf))
    /\ UNCHANGED <<data, mswindows, wall, start, pair, comm, others, locals, workspace, desc, proc, outBuf, errBuf,
                   procsLaunched, response>>

\* Windows: run() kills the child, then calls communicate() without a
\* timeout, which blocks until the pipes are closed.
RunTimesOutWindows ==
    /\ pc = "communicate" /\ ~timeout_sec.nan /\ ~WaitDone /\ mswindows
    /\ child' = IF child = "running" THEN "killed" ELSE child
    /\ returncode' = IF child = "running" THEN -9 ELSE returncode
    /\ timerFired' = TRUE
    /\ pc' = "win_collect"
    /\ UNCHANGED <<data, mswindows, wall, start, pair, comm, others, locals, workspace, desc, proc, outBuf, errBuf,
                   procsLaunched, pending, response>>

\* Windows: the second communicate() returns the output as str; then 1000-1017.
WinCollect ==
    /\ pc = "win_collect" /\ desc # "pipes"
    /\ IF ValidUtf8(outBuf) /\ ValidUtf8(errBuf)
       THEN TimeoutHandler(PyText(PipeText(outBuf)), PyText(PipeText(errBuf)))
       ELSE Raise(DecodeFailure)
    /\ UNCHANGED <<data, mswindows, wall, start, pair, comm, others, locals, workspace, process, response>>

(***************************************************************************)
(* Leaving the `with` block: TemporaryDirectory.__exit__ (shutil.rmtree),  *)
(* then the return or the outer except, routes.py 982, 1029-1030           *)
(***************************************************************************)
\* rmtree removes the entries it finds in the directory.
CleanupUnlink ==
    /\ pc = "cleanup"
    /\ files' = {}
    /\ pc' = "rmdir"
    /\ UNCHANGED <<data, mswindows, wall, start, pair, comm, others, locals, tmpdir, dirsCreated, process, pending, response>>

\* rmtree removes the directory itself; os.rmdir fails (OSError, directory
\* not empty) when a file has appeared since, and the error is raised.
CleanupRmdir ==
    /\ pc = "rmdir"
    /\ IF files = {}
       THEN /\ tmpdir' = "removed"
            /\ response' = IF pending.exc # "" THEN ExecutionFailed(pending.exc)
                           ELSE pending.resp
       ELSE /\ response' = ExecutionFailed("OSError")
            /\ UNCHANGED tmpdir
    /\ pc' = "returned"
    /\ UNCHANGED <<data, mswindows, wall, start, pair, comm, others, locals, files, dirsCreated, process, pending>>

(***************************************************************************)
(* Requests                                                                *)
(***************************************************************************)
CodeValues ==
    {Absent, JNull, JInt(7), JList(<<>>), JStr(<<>>), JStr(<<32, 10>>),
     JStr(<<120>>), JStr(<<32, 120, 10>>), JStr(<<55296>>)}

ArgsValues ==
    {Absent, JNull, JList(<<>>), JList(<<JStr(<<97>>), JInt(12)>>), JList(<<JStr(<<0>>)>>),
     JInt(0), JBool(FALSE), JStr(<<>>), JObj(0), JFloat(0),
     JInt(5), JBool(TRUE), JStr(<<97>>), JObj(1)}

StdinValues == {Absent, JNull, JStr(<<105>>), JStr(<<>>), JInt(0), JList(<<>>)}

TimeoutValues ==
    {Absent, JNull, JList(<<>>), JStr(<<97, 98, 99>>), JStr(<<>>),
     JInt(-1), JInt(0), JFloat(5), JInt(1), JInt(15), JFloat(151), JInt(16), JNaN,
     JBool(TRUE), JStr(<<32, 51, 32>>), JStr(<<48, 46, 53>>)}

LimitValues ==
    {Absent, JNull, JObj(0), JNaN, JStr(<<50, 46, 53>>),
     JInt(-5), JInt(0), JInt(1023), JInt(1024), JInt(1025), JInt(262144), JInt(262145),
     JFloat(15007), JBool(TRUE), JStr(<<50, 48, 52, 56>>)}

FieldValues ==
    [code |-> CodeValues, args |-> ArgsValues, stdin |-> StdinValues,
     timeout_sec |-> TimeoutValues, limit_bytes |-> LimitValues]

\* A request with only the required field.
Baseline ==
    [code |-> JStr(<<120>>), args |-> Absent, stdin |-> Absent,
     timeout_sec |-> Absent, limit_bytes |-> Absent]

\* A request every field of which is malformed.
Malformed ==
    [code |-> JNull, args |-> JInt(5), stdin |-> JInt(0),
     timeout_sec |-> JNull, limit_bytes |-> JNull]

\* The requests that differ from b in at most one field.
Near(b) == UNION {{[b EXCEPT ![k] = v] : v \in FieldValues[k]} : k \in Fields}

\* The requests whose fields are well formed before field k (in the order
\* of the checks) and malformed from k on.
FieldOrder == <<"code", "args", "stdin", "timeout_sec", "limit_bytes">>

MalformedFrom(k) ==
    [f \in Fields |->
        LET i == CHOOSE j \in 1..Len(FieldOrder) : FieldOrder[j] = f
        IN  IF i < k THEN Baseline[f] ELSE Malformed[f]]

\* The requests of the model.
Requests ==
    Near(Baseline) \cup Near(Malformed) \cup {MalformedFrom(k) : k \in 1..Len(FieldOrder)}

(***************************************************************************)
(* Specification                                                           *)
(***************************************************************************)
Init ==
    /\ pc = "check_code"
    /\ data \in Requests
    /\ mswindows \in BOOLEAN
    /\ args_list = <<>>
    /\ stdin_text = JNull
    /\ timeout_sec = FNum(0)
    /\ limit_bytes = 0
    /\ tmpdir = "none"
    /\ files = {}
    /\ child = "none"
    /\ returncode = 0
    /\ desc = "none"
    /\ proc = NoProc
    /\ outBuf = <<>>
    /\ errBuf = <<>>
    /\ timerFired = FALSE
    /\ pending = NoPending
    /\ response = NoResponse
    /\ dirsCreated = 0
    /\ procsLaunched = 0
    /\ wall = WallAtRequest
    /\ start = 0
    /\ tmproot = NoDirs
    /\ invs = NoInvs
    /\ comm = NoComm
    /\ OthersIdle

Next ==
    \/ CheckCode
    \/ CheckArgs
    \/ CheckStdin
    \/ CheckTimeout
    \/ CheckLimit
    \/ MakeTmpDir
    \/ WriteSource
    \/ Launch
    \/ ChildWriteStdout
    \/ ChildWriteStderr
    \/ ChildSpawn
    \/ ChildExit
    \/ DescDetach
    \/ DescExit
    \/ DescWriteFile
    \/ CommunicateFails
    \/ RunCompletes
    \/ RunTimesOutPosix
    \/ RunTimesOutWindows
    \/ WinCollect
    \/ CleanupUnlink
    \/ CleanupRmdir

Spec == Init /\ [][Next]_vars

(***************************************************************************)
(* The tail of the handler from a started child, for many outputs: the     *)
(* child has written a text around the smallest ceiling and has exited or  *)
(* runs on until the timeout.                                              *)
(***************************************************************************)
\* Code points of 1, 1, 2, 3 and 4 bytes: "A", "\r", U+00E9, U+20AC, U+1F600.
TailChars == {65, 13, 233, 8364, 128512}

RECURSIVE TextsUpTo(_)
TextsUpTo(n) ==
    IF n = 0 THEN {<<>>}
    ELSE LET shorter == TextsUpTo(n - 1)
         IN  shorter \cup {Append(t, c) : t \in shorter, c \in TailChars}

Tails == TextsUpTo(MaxTail)

BoundTexts == Tails \cup {Fill(FillLen) \o t : t \in Tails}

\* Values of limit_bytes in the request, at and above the filler's length.
BoundLimits == FillLen..(FillLen + 3)

InitBound ==
    /\ pc = "communicate"
    /\ mswindows \in BOOLEAN
    /\ \E n \in BoundLimits :
          /\ data = [Baseline EXCEPT !.limit_bytes = JInt(n)]
          /\ limit_bytes = ClampLimit(n)
    /\ args_list = <<>>
    /\ stdin_text = JNull
    /\ timeout_sec = Seconds(DefaultTimeoutSec)
    /\ tmpdir = "exists"
    /\ files = {SrcFile(data.code.v)}
    /\ child \in {"running", "exited"}
    /\ returncode = 0
    /\ desc = "none"
    /\ proc = LaunchRecord
    /\ outBuf \in {Encode(t) : t \in BoundTexts}
    /\ errBuf = <<101>>
    /\ timerFired = FALSE
    /\ pending = NoPending
    /\ response = NoResponse
    /\ dirsCreated = 1
    /\ procsLaunched = 1
    /\ wall = WallAtRequest
    /\ start = WallAtRequest
    /\ tmproot = NoDirs
    /\ invs = NoInvs
    /\ comm = NoComm
    /\ OthersIdle

NextBound ==
    \/ RunCompletes
    \/ RunTimesOutPosix
    \/ RunTimesOutWindows
    \/ WinCollect
    \/ CleanupUnlink
    \/ CleanupRmdir

SpecBound == InitBound /\ [][NextBound]_vars

(***************************************************************************)
(* The wall clock behind time.time(), and the whole handler for the        *)
(* request with only the required field while that clock moves.            *)
(***************************************************************************)
\* Time passes.
ClockAdvance ==
    /\ ~Returned /\ wall < MaxWall
    /\ wall' = wall + 1
    /\ UNCHANGED <<pc, data, mswindows, start, pair, comm, others, locals, workspace, process, pending,
                   response>>

\* The wall clock is set back (an adjustment of the system time).
ClockStepBack ==
    /\ ~Returned /\ wall > 0
    /\ \E w \in 0..(wall - 1) : wall' = w
    /\ UNCHANGED <<pc, data, mswindows, start, pair, comm, others, locals, workspace, process, pending,
                   response>>

InitClock == Init /\ data = Baseline

NextClock ==
    \/ CheckCode
    \/ CheckArgs
    \/ CheckStdin
    \/ CheckTimeout
    \/ CheckLimit
    \/ MakeTmpDir
    \/ WriteSource
    \/ Launch
    \/ ChildWriteStdout
    \/ ChildWriteStderr
    \/ ChildSpawn
    \/ ChildExit
    \/ DescDetach
    \/ DescExit
    \/ DescWriteFile
    \/ RunCompletes
    \/ RunTimesOutPosix
    \/ RunTimesOutWindows
    \/ WinCollect
    \/ CleanupUnlink
    \/ CleanupRmdir
    \/ ClockAdvance
    \/ ClockStepBack

SpecClock == InitClock /\ [][NextClock]_vars

(***************************************************************************)
(* Concurrent invocations: each runs lines 982-1028 in its own thread,     *)
(* with its own locals, child and pipes; the temporary root is shared.     *)
(* Each submitted program prints its own source and stays inside its       *)
(* working directory.                                                      *)
(***************************************************************************)
Invocations == 1..NumInvocations

DirNames == 1..NumDirNames

\* The codes the requests may carry.
PairCodes == {<<120>>, <<121>>}

\* What a child prints when it runs the source text src.
OutputOf(src) == Encode(src)

\* A name under the temporary root that is not taken / a directory with the
\* files fs.
NoDir == [exists |-> FALSE, files |-> {}]

Dir(fs) == [exists |-> TRUE, files |-> fs]

\* Mutant of FreeNames: the directory is made without the exclusive check.
FreeNames_NotExclusive == DirNames

\* 982: mkdtemp draws names until os.mkdir succeeds, which it does only for
\* a name that does not exist.
FreeNames == {n \in DirNames : ~tmproot[n].exists}

single ==
    <<pc, data, mswindows, locals, workspace, process, pending, response, wall, start, comm>>

InvStart(code) ==
    [pc |-> "mkdtemp", code |-> code, tmpdir |-> 0, child |-> "none",
     ran |-> <<>>, pipe |-> <<>>, result |-> NoResponse]

\* 982
PairMakeTmpDir(i) ==
    /\ invs[i].pc = "mkdtemp"
    /\ \E n \in FreeNames :
          /\ tmproot' = [tmproot EXCEPT ![n] = Dir({})]
          /\ invs' = [invs EXCEPT ![i].tmpdir = n, ![i].pc = "write_src"]
    /\ UNCHANGED <<single, others>>

\* 983-985: open(src_path, "w") replaces a file of that name.
PairWriteSource(i) ==
    /\ invs[i].pc = "write_src"
    /\ LET d == invs[i].tmpdir
       IN  tmproot' = [tmproot EXCEPT ![d] =
                          Dir({f \in tmproot[d].files : f.name # "main.py"}
                                  \cup {SrcFile(invs[i].code)})]
    /\ invs' = [invs EXCEPT ![i].pc = "launch"]
    /\ UNCHANGED <<single, others>>

\* 992-999: the child of invocation i is started on src_path, with pipes of
\* its own.
PairLaunch(i) ==
    /\ invs[i].pc = "launch"
    /\ invs' = [invs EXCEPT ![i].child = "running", ![i].pc = "communicate"]
    /\ UNCHANGED <<single, others, tmproot>>

\* The child reads the file at src_path, runs it and writes to its stdout.
PairChildRun(i) ==
    /\ invs[i].child = "running"
    /\ LET d == invs[i].tmpdir
       IN  /\ tmproot[d].exists
           /\ \E f \in tmproot[d].files :
                 /\ f.name = "main.py"
                 /\ invs' = [invs EXCEPT ![i].ran = f.content,
                                         ![i].pipe = OutputOf(f.content),
                                         ![i].child = "exited"]
    /\ UNCHANGED <<single, others, tmproot>>

\* 992-999 returns with what was read from the pipes of this child; then
\* 1019-1028.
PairRunCompletes(i) ==
    /\ invs[i].pc = "communicate" /\ invs[i].child = "exited"
    /\ invs' = [invs EXCEPT ![i].result =
                                [http |-> 200, stdout |-> PipeText(invs[i].pipe)],
                            ![i].pc = "cleanup"]
    /\ UNCHANGED <<single, others, tmproot>>

\* Mutant of PairCleanup: the whole temporary root is cleared.
PairCleanup_ClearsRoot(i) ==
    /\ invs[i].pc = "cleanup"
    /\ tmproot' = [n \in DirNames |-> NoDir]
    /\ invs' = [invs EXCEPT ![i].pc = "returned"]
    /\ UNCHANGED <<single, others>>

\* Leaving the `with` block: rmtree of this invocation's directory.  It
\* fails, as in CleanupRmdir, when a process the child left behind writes
\* into the directory meanwhile; the directory then stays, and the outer
\* except answers.
PairCleanup(i) ==
    /\ invs[i].pc = "cleanup"
    /\ \E removed \in BOOLEAN :
          IF removed
          THEN /\ tmproot' = [tmproot EXCEPT ![invs[i].tmpdir] = NoDir]
               /\ invs' = [invs EXCEPT ![i].pc = "returned"]
          ELSE /\ tmproot' = [tmproot EXCEPT ![invs[i].tmpdir] = Dir({StrayFile})]
               /\ invs' = [invs EXCEPT ![i].pc = "returned",
                                       ![i].result = ExecutionFailed("OSError")]
    /\ UNCHANGED <<single, others>>

InitPair ==
    /\ pc = "mkdtemp"
    /\ data = Baseline
    /\ mswindows = FALSE
    /\ args_list = <<>>
    /\ stdin_text = JNull
    /\ timeout_sec = Seconds(DefaultTimeoutSec)
    /\ limit_bytes = DefaultLimitBytes
    /\ tmpdir = "none"
    /\ files = {}
    /\ child = "none"
    /\ returncode = 0
    /\ desc = "none"
    /\ proc = NoProc
    /\ outBuf = <<>>
    /\ errBuf = <<>>
    /\ timerFired = FALSE
    /\ pending = NoPending
    /\ response = NoResponse
    /\ dirsCreated = 0
    /\ procsLaunched = 0
    /\ wall = WallAtRequest
    /\ start = 0
    /\ tmproot = [n \in DirNames |-> NoDir]
    /\ invs \in [Invocations -> {InvStart(c) : c \in PairCodes}]
    /\ comm = NoComm
    /\ OthersIdle

NextPair ==
    \E i \in Invocations :
        \/ PairMakeTmpDir(i)
        \/ PairWriteSource(i)
        \/ PairLaunch(i)
        \/ PairChildRun(i)
        \/ PairRunCompletes(i)
        \/ PairCleanup(i)

SpecPair == InitPair /\ [][NextPair]_vars

(***************************************************************************)
(* The steps inside subprocess.run(cmd, input=..., capture_output=True,    *)
(* timeout=...), routes.py 992-999, and what follows it, 1000-1028: the    *)
(* parent writes the stdin text into the child's stdin pipe, reads the     *)
(* stdout/stderr pipes, waits with the timeout, kills on timeout; then the *)
(* handler bounds the output and the workspace is released.                *)
(* POSIX: communicate() writes and reads in one loop that checks the       *)
(* deadline.  Windows: communicate() starts reader threads, writes the     *)
(* whole input with a blocking write, then joins the readers with the      *)
(* timeout; after a timeout run() kills the child and calls communicate()  *)
(* again, without a timeout.                                               *)
(***************************************************************************)
CommStart(win, chunks) ==
    [at |-> "communicate", mswin |-> win, toWrite |-> chunks, inPipe |-> 0,
     outPipe |-> 0, produced |-> 0, collected |-> 0, child |-> "running",
     desc |-> "none", timedOut |-> FALSE, bounded |-> "no", released |-> FALSE]

rest ==
    <<pc, data, mswindows, locals, workspace, process, pending, response, wall, start, pair,
      others>>

\* The write ends of the output pipes are closed and nothing is left in them.
CommEof == comm.child # "running" /\ comm.desc # "pipes" /\ comm.outPipe = 0

\* POSIX: the loop writes a chunk of the input when the pipe takes it.
PosixWriteStdin ==
    /\ comm.at = "communicate" /\ ~comm.mswin
    /\ comm.toWrite > 0 /\ comm.child = "running" /\ comm.inPipe < PipeCap
    /\ comm' = [comm EXCEPT !.toWrite = @ - 1, !.inPipe = @ + 1]
    /\ UNCHANGED rest

\* The child is gone: the write fails with BrokenPipeError, which is
\* ignored, and stdin is closed.
StdinBroken ==
    /\ comm.at = IF comm.mswin THEN "win_write" ELSE "communicate"
    /\ comm.toWrite > 0 /\ comm.child # "running"
    /\ comm' = [comm EXCEPT !.toWrite = 0]
    /\ UNCHANGED rest

\* POSIX: the loop reads what is in the output pipe.
PosixRead ==
    /\ comm.at = "communicate" /\ ~comm.mswin /\ comm.outPipe > 0
    /\ comm' = [comm EXCEPT !.outPipe = @ - 1, !.collected = @ + 1]
    /\ UNCHANGED rest

\* POSIX: the input is written and the pipes are at end of file; the loop
\* ends, wait() returns, run() returns.
PosixCompletes ==
    /\ comm.at = "communicate" /\ ~comm.mswin
    /\ comm.toWrite = 0 /\ CommEof
    /\ comm' = [comm EXCEPT !.at = "bound"]
    /\ UNCHANGED rest

\* POSIX: the deadline has passed at a check of the loop, which comes before
\* the loop looks at the pipes: TimeoutExpired.
PosixTimeout ==
    /\ comm.at = "communicate" /\ ~comm.mswin
    /\ comm' = [comm EXCEPT !.timedOut = TRUE, !.at = "kill"]
    /\ UNCHANGED rest

\* Windows: communicate() starts the reader threads.
WinStartReaders ==
    /\ comm.at = "communicate" /\ comm.mswin
    /\ comm' = [comm EXCEPT !.at = "win_write"]
    /\ UNCHANGED rest

\* Windows: a reader thread reads what is in the output pipe.
WinRead ==
    /\ comm.mswin /\ comm.at \in {"win_write", "win_join", "kill", "win_collect"}
    /\ comm.outPipe > 0
    /\ comm' = [comm EXCEPT !.outPipe = @ - 1, !.collected = @ + 1]
    /\ UNCHANGED rest

\* Windows: _stdin_write writes the input with a blocking write, no deadline.
WinWriteStdin ==
    /\ comm.at = "win_write"
    /\ comm.toWrite > 0 /\ comm.child = "running" /\ comm.inPipe < PipeCap
    /\ comm' = [comm EXCEPT !.toWrite = @ - 1, !.inPipe = @ + 1]
    /\ UNCHANGED rest

\* Windows: the input is written; the readers are joined with the timeout.
WinStdinDone ==
    /\ comm.at = "win_write" /\ comm.toWrite = 0
    /\ comm' = [comm EXCEPT !.at = "win_join"]
    /\ UNCHANGED rest

\* Windows: the readers have reached end of file within the timeout.
WinJoinCompletes ==
    /\ comm.at = "win_join" /\ CommEof
    /\ comm' = [comm EXCEPT !.at = "bound"]
    /\ UNCHANGED rest

\* Windows: a join has run out of time: TimeoutExpired.
WinJoinTimeout ==
    /\ comm.at = "win_join" /\ ~CommEof
    /\ comm' = [comm EXCEPT !.timedOut = TRUE, !.at = "kill"]
    /\ UNCHANGED rest

\* Mutant of KillChild: the handler is entered without the kill.
KillChild_NoKill ==
    /\ comm.at = "kill"
    /\ comm' = [comm EXCEPT !.at = IF comm.mswin THEN "win_collect" ELSE "bound"]
    /\ UNCHANGED rest

\* run() on TimeoutExpired: process.kill(); then wait() on POSIX,
\* communicate() on Windows.
KillChild ==
    /\ comm.at = "kill"
    /\ comm' = [comm EXCEPT !.child = IF @ = "running" THEN "killed" ELSE @,
                            !.at = IF comm.mswin THEN "win_collect" ELSE "bound"]
    /\ UNCHANGED rest

\* Windows: the communicate() after the kill returns at end of file.
WinCollectAfterKill ==
    /\ comm.at = "win_collect" /\ CommEof
    /\ comm' = [comm EXCEPT !.at = "bound"]
    /\ UNCHANGED rest

\* 1002-1005, 1019-1020: _truncate on what was collected.  On POSIX the
\* output of a TimeoutExpired is bytes, and _truncate raises when there is
\* any.
BoundOutput ==
    /\ comm.at = "bound"
    /\ comm' = [comm EXCEPT
                   !.bounded = IF comm.timedOut /\ ~comm.mswin /\ comm.collected > 0
                               THEN "raised" ELSE "done",
                   !.at = "release"]
    /\ UNCHANGED rest

\* Leaving the `with` block: the workspace is removed.
ReleaseWorkspace ==
    /\ comm.at = "release"
    /\ comm' = [comm EXCEPT !.released = TRUE, !.at = "returned"]
    /\ UNCHANGED rest

\* The child: it reads its stdin, writes output, spawns a process that
\* inherits its pipes, exits, as the submitted code decides.
CommChildReads ==
    /\ comm.child = "running" /\ comm.inPipe > 0
    /\ comm' = [comm EXCEPT !.inPipe = @ - 1]
    /\ UNCHANGED rest

CommChildWrites ==
    /\ comm.child = "running" /\ comm.outPipe < PipeCap /\ comm.produced < MaxOutChunks
    /\ comm' = [comm EXCEPT !.outPipe = @ + 1, !.produced = @ + 1]
    /\ UNCHANGED rest

CommChildSpawns ==
    /\ comm.child = "running" /\ comm.desc = "none"
    /\ comm' = [comm EXCEPT !.desc = "pipes"]
    /\ UNCHANGED rest

CommChildExits ==
    /\ comm.child = "running"
    /\ comm' = [comm EXCEPT !.child = "exited"]
    /\ UNCHANGED rest

CommDescExits ==
    /\ comm.desc = "pipes" /\ comm.at # "returned"
    /\ comm' = [comm EXCEPT !.desc = "gone"]
    /\ UNCHANGED rest

InitSteps ==
    /\ pc = "communicate"
    /\ data = Baseline
    /\ mswindows = FALSE
    /\ args_list = <<>>
    /\ stdin_text = JNull
    /\ timeout_sec = Seconds(DefaultTimeoutSec)
    /\ limit_bytes = DefaultLimitBytes
    /\ tmpdir = "exists"
    /\ files = {SrcFile(data.code.v)}
    /\ child = "running"
    /\ returncode = 0
    /\ desc = "none"
    /\ proc = NoProc
    /\ outBuf = <<>>
    /\ errBuf = <<>>
    /\ timerFired = FALSE
    /\ pending = NoPending
    /\ response = NoResponse
    /\ dirsCreated = 1
    /\ procsLaunched = 1
    /\ wall = WallAtRequest
    /\ start = WallAtRequest
    /\ tmproot = NoDirs
    /\ invs = NoInvs
    /\ comm \in {CommStart(win, n) : win \in BOOLEAN, n \in 0..MaxStdinChunks}
    /\ OthersIdle

StepsEngine ==
    \/ PosixWriteStdin
    \/ StdinBroken
    \/ PosixRead
    \/ PosixCompletes
    \/ PosixTimeout
    \/ WinStartReaders
    \/ WinRead
    \/ WinWriteStdin
    \/ WinStdinDone
    \/ WinJoinCompletes
    \/ WinJoinTimeout
    \/ KillChild
    \/ WinCollectAfterKill
    \/ BoundOutput
    \/ ReleaseWorkspace

StepsChild ==
    \/ CommChildReads
    \/ CommChildWrites
    \/ CommChildSpawns
    \/ CommChildExits
    \/ CommDescExits

NextSteps == StepsEngine \/ StepsChild

SpecSteps == InitSteps /\ [][NextSteps]_vars

\* The engine's thread keeps running: a step of it that stays possible is
\* taken.  Nothing is assumed of the child.
SpecStepsFair == SpecSteps /\ WF_vars(StepsEngine)

(***************************************************************************)
(* The before-request hook _init_db, routes.py 15-29, run by the request   *)
(* threads of the server (server.py 26: app.run, one thread per request).  *)
(* Each line of the hook is a step of its thread; nothing is locked.       *)
(***************************************************************************)
\* run_python and its workspace are not looked at.
handler == <<single, pair>>

\* A request arrives and its thread enters the hook.
HookEnter(t) ==
    /\ hook[t] = "idle" /\ requests < MaxRequests
    /\ hook' = [hook EXCEPT ![t] = "test"]
    /\ requests' = requests + 1
    /\ UNCHANGED <<handler, annot, batch, _DB_INIT_DONE, ensureCalls, lastEnsure>>

\* 21-22: if _DB_INIT_DONE: return
HookTest(t) ==
    /\ hook[t] = "test"
    /\ hook' = [hook EXCEPT ![t] = IF _DB_INIT_DONE THEN "done" ELSE "call"]
    /\ UNCHANGED <<handler, annot, batch, _DB_INIT_DONE, ensureCalls, lastEnsure, requests>>

\* 24-25: ensure_tables() is called.
HookCall(t) ==
    /\ hook[t] = "call"
    /\ hook' = [hook EXCEPT ![t] = "ensure"]
    /\ ensureCalls' = ensureCalls + 1
    /\ UNCHANGED <<handler, annot, batch, _DB_INIT_DONE, lastEnsure, requests>>

\* 25: ensure_tables() returns.
HookEnsureReturns(t) ==
    /\ hook[t] = "ensure"
    /\ hook' = [hook EXCEPT ![t] = "set"]
    /\ lastEnsure' = "returned"
    /\ UNCHANGED <<handler, annot, batch, _DB_INIT_DONE, ensureCalls, requests>>

\* 26-28: ensure_tables() raises an Exception, which is passed over.
HookEnsureRaises(t) ==
    /\ hook[t] = "ensure"
    /\ hook' = [hook EXCEPT ![t] = "set"]
    /\ lastEnsure' = "raised"
    /\ UNCHANGED <<handler, annot, batch, _DB_INIT_DONE, ensureCalls, requests>>

\* Mutant of HookSet: the flag is left as it is.
HookSet_NoFlag(t) ==
    /\ hook[t] = "set"
    /\ hook' = [hook EXCEPT ![t] = "done"]
    /\ UNCHANGED <<handler, annot, batch, _DB_INIT_DONE, ensureCalls, lastEnsure, requests>>

\* 29: _DB_INIT_DONE = True
HookSet(t) ==
    /\ hook[t] = "set"
    /\ _DB_INIT_DONE' = TRUE
    /\ hook' = [hook EXCEPT ![t] = "done"]
    /\ UNCHANGED <<handler, annot, batch, ensureCalls, lastEnsure, requests>>

\* The request is served and its thread ends.
HookRequestEnds(t) ==
    /\ hook[t] = "done"
    /\ hook' = [hook EXCEPT ![t] = "idle"]
    /\ UNCHANGED <<handler, annot, batch, _DB_INIT_DONE, ensureCalls, lastEnsure, requests>>

InitHook ==
    /\ pc = "check_code"
    /\ data = Baseline
    /\ mswindows = FALSE
    /\ args_list = <<>>
    /\ stdin_text = JNull
    /\ timeout_sec = FNum(0)
    /\ limit_bytes = 0
    /\ tmpdir = "none"
    /\ files = {}
    /\ child = "none"
    /\ returncode = 0
    /\ desc = "none"
    /\ proc = NoProc
    /\ outBuf = <<>>
    /\ errBuf = <<>>
    /\ timerFired = FALSE
    /\ pending = NoPending
    /\ response = NoResponse
    /\ dirsCreated = 0
    /\ procsLaunched = 0
    /\ wall = WallAtRequest
    /\ start = 0
    /\ tmproot = NoDirs
    /\ invs = NoInvs
    /\ comm = NoComm
    /\ OthersIdle

NextHook ==
    \E t \in Threads :
        \/ HookEnter(t)
        \/ HookTest(t)
        \/ HookCall(t)
        \/ HookEnsureReturns(t)
        \/ HookEnsureRaises(t)
        \/ HookSet(t)
        \/ HookRequestEnds(t)

SpecHook == InitHook /\ [][NextHook]_vars

(***************************************************************************)
(* annotate_code, routes.py 541-747, from the reply of the model on:       *)
(* the changes are filtered, ranked and capped, and the code is rebuilt    *)
(* line by line.                                                           *)
(***************************************************************************)
\* The most changes that are applied (the slice [:10] of line 691).
MaxApplied == 10

\* str.lower() on the letters A-Z.
Lower(s) == [i \in 1..Len(s) |-> IF s[i] >= 65 /\ s[i] <= 90 THEN s[i] + 32 ELSE s[i]]

\* sub in s
Contains(s, sub) ==
    \E i \in 1..(Len(s) - Len(sub) + 1) : SubSeq(s, i, i + Len(sub) - 1) = sub

\* 572-600
HashLanguages == {<<112, 121, 116, 104, 111, 110>>, <<112, 121>>, <<114, 117, 98, 121>>, <<114, 98>>, <<98, 97, 115, 104>>, <<115, 104>>}

SlashLanguages ==
    {<<106, 97, 118, 97, 115, 99, 114, 105, 112, 116>>, <<106, 115>>, <<116, 121, 112, 101, 115, 99, 114, 105, 112, 116>>, <<116, 115>>, <<106, 97, 118, 97>>, <<99>>, <<99, 112, 112>>, <<99, 43, 43>>, <<103, 111>>, <<103, 111, 108, 97, 110, 103>>, <<114, 117, 115, 116>>, <<115, 119, 105, 102, 116>>, <<107, 111, 116, 108, 105, 110>>, <<112, 104, 112>>}

_comment_prefix(lang) ==
    IF lang \in HashLanguages THEN <<35>>
    ELSE IF lang \in SlashLanguages THEN <<47, 47>>
    ELSE IF Contains(Lower(lang), <<112, 121, 116, 104, 111, 110>>) THEN <<35>>
    ELSE <<47, 47>>

\* The characters str.splitlines breaks a text at.
IsLineBreak(c) == c \in {10, 11, 12, 13, 28, 29, 30, 133, 8232, 8233}

\* 637: code.splitlines(True)
RECURSIVE SplitLines(_)
SplitLines(s) ==
    IF s = <<>> THEN <<>>
    ELSE LET brk == {i \in 1..Len(s) : IsLineBreak(s[i])}
         IN  IF brk = {} THEN <<s>>
             ELSE LET i == CHOOSE i \in brk : \A j \in brk : i <= j
                      e == IF s[i] = 13 /\ i < Len(s) /\ s[i + 1] = 10 THEN i + 1 ELSE i
                  IN  <<SubSeq(s, 1, e)>> \o SplitLines(SubSeq(s, e + 1, Len(s)))

\* "".join(parts)
RECURSIVE Join(_)
Join(parts) == IF parts = <<>> THEN <<>> ELSE Head(parts) \o Join(Tail(parts))

\* 708-717: the newline of a line, "\r\n", "\n" or none.
NewlineOf(original) ==
    IF Len(original) >= 2 /\ SubSeq(original, Len(original) - 1, Len(original)) = <<13, 10>>
    THEN <<13, 10>>
    ELSE IF original # <<>> /\ original[Len(original)] = 10 THEN <<10>>
    ELSE <<>>

\* 719-723: the number of leading spaces and tabs.
RECURSIVE IndentLen(_)
IndentLen(body) ==
    IF body # <<>> /\ Head(body) \in {32, 9} THEN 1 + IndentLen(Tail(body)) ELSE 0

\* str.rstrip("\r\n")
RECURSIVE RStripNewlines(_)
RStripNewlines(t) ==
    IF t # <<>> /\ t[Len(t)] \in {10, 13} THEN RStripNewlines(SubSeq(t, 1, Len(t) - 1)) ELSE t

\* Python None for new_code and comment, and a text.
No == [some |-> FALSE, v |-> <<>>]

Some(t) == [some |-> TRUE, v |-> t]

\* 641-642: _norm_str
_norm_str(v) == IF IsStr(v) /\ Strip(v.v) # <<>> THEN Some(v.v) ELSE No

Critical == <<99, 114, 105, 116, 105, 99, 97, 108>>

High == <<104, 105, 103, 104>>

\* 647-676: what the filter makes of one item of changes: kept or not, and
\* the entry appended to filtered.
Filtered(item, total) ==
    LET isDict == item.t = "dict"
        ln == IF isDict THEN ToInt(DictGet(item, "line")) ELSE [ok |-> FALSE, v |-> 0]
        sev == IF isDict THEN Lower(PyStr(DictGetDefault(item, "severity", JStr(<<>>)))) ELSE <<>>
        cat == IF isDict THEN Lower(PyStr(DictGetDefault(item, "category", JStr(<<>>)))) ELSE <<>>
        imp == IF isDict THEN ToInt(DictGetDefault(item, "impact", JInt(0)))
               ELSE [ok |-> FALSE, v |-> 0]
        impact == IF imp.ok THEN imp.v ELSE 0
        nc == IF isDict THEN DictGet(item, "new_code") ELSE JNull
        new_code == IF IsStr(nc) /\ ~(\E i \in 1..Len(nc.v) : nc.v[i] \in {10, 13})
                    THEN Some(nc.v) ELSE No
    IN  [keep |-> /\ isDict /\ ln.ok /\ ln.v >= 1 /\ ln.v <= total
                  /\ cat \notin {<<115, 116, 121, 108, 101>>, <<110, 97, 109, 105, 110, 103>>}
                  /\ (sev \in {Critical, High} \/ impact >= 8),
         entry |-> [line |-> ln.v, new_code |-> new_code,
                    comment |-> IF isDict THEN _norm_str(DictGet(item, "comment")) ELSE No,
                    impact |-> impact, severity |-> sev]]

\* 679-684: _rank_key, as the pair the sort compares.
SevScore(it) == IF it.severity = Critical THEN 2 ELSE IF it.severity = High THEN 1 ELSE 0

\* 687: sorted() is stable: i comes before j.
RanksBefore(filtered, i, j) ==
    LET si == SevScore(filtered[i])
        sj == SevScore(filtered[j])
    IN  \/ si > sj
        \/ si = sj /\ filtered[i].impact > filtered[j].impact
        \/ si = sj /\ filtered[i].impact = filtered[j].impact /\ i < j

\* Mutant of SelectedIdx: every filtered change is selected.
SelectedIdx_NoCap(filtered) == 1..Len(filtered)

\* 687-690: the indices of the first MaxApplied entries of the ranking.
SelectedIdx(filtered) ==
    {i \in 1..Len(filtered) :
        Cardinality({j \in 1..Len(filtered) : RanksBefore(filtered, j, i)}) < MaxApplied}

\* 704-739: the line the rebuild makes of `original` under `change`.
ResultLine(original, change, prefix) ==
    LET nl == NewlineOf(original)
        body == SubSeq(original, 1, Len(original) - Len(nl))
        n == IndentLen(body)
        indent == SubSeq(body, 1, n)
        content_body == SubSeq(body, n + 1, Len(body))
        new_content == IF change.new_code.some THEN RStripNewlines(change.new_code.v)
                       ELSE content_body
        tail == IF change.comment.some /\ Strip(change.comment.v) # <<>>
                THEN (IF new_content # <<>> THEN <<32, 32>> ELSE <<>>)
                     \o prefix \o <<32>> \o Strip(change.comment.v)
                ELSE <<>>
    IN  indent \o new_content \o tail \o nl

NoChange == [changed |-> FALSE, new_code |-> No, comment |-> No]

\* annotate_code after the reply was parsed (635): the locals of 637-640.
AnnotStart(code, language, changes) ==
    [at |-> "filter", code |-> code, language |-> language, changes |-> changes,
     lines |-> SplitLines(code), k |-> 1, filtered |-> <<>>, selected |-> {},
     applied |-> 0,
     line_to_change |-> [n \in 1..Len(SplitLines(code)) |-> NoChange],
     out_parts |-> <<>>, annotated |-> <<>>]

\* 645-676: one pass of the filter loop.
AnnotFilterItem ==
    /\ annot.at = "filter" /\ annot.k <= Len(annot.changes)
    /\ LET f == Filtered(annot.changes[annot.k], Len(annot.lines))
       IN  annot' = [annot EXCEPT
                        !.filtered = IF f.keep THEN Append(@, f.entry) ELSE @,
                        !.k = @ + 1]
    /\ UNCHANGED <<handler, _DB_INIT_DONE, hook, ensureCalls, lastEnsure, requests, batch>>

\* 679-690: rank, cap, back to the original order.
AnnotSelect ==
    /\ annot.at = "filter" /\ annot.k > Len(annot.changes)
    /\ annot' = [annot EXCEPT !.selected = SelectedIdx(annot.filtered),
                              !.at = "apply", !.k = 1]
    /\ UNCHANGED <<handler, _DB_INIT_DONE, hook, ensureCalls, lastEnsure, requests, batch>>

\* 692-701: one pass of the loop over selected_idx, in index order.
AnnotApplyItem ==
    /\ annot.at = "apply" /\ annot.k <= Len(annot.filtered)
    /\ LET item == annot.filtered[annot.k]
           skip == annot.k \notin annot.selected
                   \/ (~item.new_code.some /\ ~item.comment.some)
       IN  annot' = [annot EXCEPT
                        !.line_to_change =
                            IF skip THEN @
                            ELSE [@ EXCEPT ![item.line] =
                                     [changed |-> TRUE, new_code |-> item.new_code,
                                      comment |-> item.comment]],
                        !.applied = IF skip THEN @ ELSE @ + 1,
                        !.k = @ + 1]
    /\ UNCHANGED <<handler, _DB_INIT_DONE, hook, ensureCalls, lastEnsure, requests, batch>>

AnnotApplyDone ==
    /\ annot.at = "apply" /\ annot.k > Len(annot.filtered)
    /\ annot' = [annot EXCEPT !.at = "rebuild", !.k = 1]
    /\ UNCHANGED <<handler, _DB_INIT_DONE, hook, ensureCalls, lastEnsure, requests, batch>>

\* 704-744: one pass of the rebuild loop.
AnnotRebuildLine ==
    /\ annot.at = "rebuild" /\ annot.k <= Len(annot.lines)
    /\ LET original == annot.lines[annot.k]
           change == annot.line_to_change[annot.k]
       IN  annot' = [annot EXCEPT
                        !.out_parts =
                            Append(@, IF change.changed
                                      THEN ResultLine(original, change,
                                                      _comment_prefix(annot.language))
                                      ELSE original),
                        !.k = @ + 1]
    /\ UNCHANGED <<handler, _DB_INIT_DONE, hook, ensureCalls, lastEnsure, requests, batch>>

\* 746-747
AnnotReturn ==
    /\ annot.at = "rebuild" /\ annot.k > Len(annot.lines)
    /\ annot' = [annot EXCEPT
                    !.annotated = IF annot.out_parts # <<>> THEN Join(annot.out_parts)
                                  ELSE annot.code,
                    !.at = "returned"]
    /\ UNCHANGED <<handler, _DB_INIT_DONE, hook, ensureCalls, lastEnsure, requests, batch>>

\* The changes of the model's reply: an item is a JSON object with the six
\* keys of the schema (any of them absent), or is not an object.
Item(line, new_code, comment, severity, category, impact) ==
    [t |-> "dict", line |-> line, new_code |-> new_code, comment |-> comment,
     severity |-> severity, category |-> category, impact |-> impact]

ChangeItems ==
    {Item(JInt(1), JStr(<<113>>), Absent, JStr(<<104, 105, 103, 104>>), JStr(<<98, 117, 103>>), JInt(9)),
     Item(JInt(2), Absent, JStr(<<99>>), JStr(<<67, 114, 105, 116, 105, 99, 97, 108>>), Absent, Absent),
     Item(JInt(1), Absent, JStr(<<97>> \o <<10>> \o <<98>>), JStr(<<104, 105, 103, 104>>), Absent, JInt(8)),
     Item(JInt(1), JStr(<<32, 122>>), Absent, JStr(<<104, 105, 103, 104>>), Absent, JInt(9)),
     Item(JStr(<<50>>), JStr(<<97>> \o <<10>> \o <<98>>), JStr(<<107>>), JStr(<<108, 111, 119>>), Absent, JInt(8)),
     Item(JInt(1), JStr(<<113>>), Absent, JStr(<<104, 105, 103, 104>>), JStr(<<83, 116, 121, 108, 101>>), JInt(9)),
     Item(JInt(3), JStr(<<113>>), Absent, JStr(<<104, 105, 103, 104>>), Absent, JInt(9)),
     JInt(1),
     Item(JStr(<<120>>), JStr(<<113>>), Absent, JStr(<<104, 105, 103, 104>>), Absent, JInt(9)),
     Item(JInt(1), JStr(<<113>>), Absent, JStr(<<108, 111, 119>>), Absent, JInt(7)),
     Item(JBool(TRUE), JStr(<<>>), JStr(<<32, 107, 32>>), JNull, Absent, JStr(<<49, 48>>)),
     Item(JInt(2), JNull, JStr(<<32>>), JStr(<<104, 105, 103, 104>>), Absent, JInt(9))}

\* A reply with more changes than are applied: MaxApplied low-ranked
\* changes for line 1 and then a critical one for line 2.
ManyChanges ==
    [i \in 1..(MaxApplied + 1) |->
        IF i <= MaxApplied
        THEN Item(JInt(1), JStr(<<48 + (i % 10)>>), Absent, JStr(<<104, 105, 103, 104>>), Absent, JInt(8))
        ELSE Item(JInt(2), JStr(<<119>>), Absent, JStr(<<99, 114, 105, 116, 105, 99, 97, 108>>), Absent, JInt(10))]

AnnotChangeLists ==
    {<<>>, ManyChanges} \cup {<<a>> : a \in ChangeItems}
        \cup {<<a, b>> : a \in ChangeItems, b \in ChangeItems}

\* Submitted codes: not blank (545); lines ending in "\n", "\r\n", "\r" or
\* nothing, with and without indentation.
AnnotCodes ==
    {<<120>> \o <<10>> \o <<121>> \o <<10>>,
     <<32, 32, 120>> \o <<13, 10, 9>> \o <<121>>,
     <<120>> \o <<13>> \o <<121>> \o <<10>>,
     <<120>>}

AnnotLanguages == {<<112, 121, 116, 104, 111, 110>>, <<106, 115>>, <<99, 121, 116, 104, 111, 110>>, <<99, 111, 98, 111, 108>>}

InitAnnot ==
    /\ pc = "check_code"
    /\ data = Baseline
    /\ mswindows = FALSE
    /\ args_list = <<>>
    /\ stdin_text = JNull
    /\ timeout_sec = FNum(0)
    /\ limit_bytes = 0
    /\ tmpdir = "none"
    /\ files = {}
    /\ child = "none"
    /\ returncode = 0
    /\ desc = "none"
    /\ proc = NoProc
    /\ outBuf = <<>>
    /\ errBuf = <<>>
    /\ timerFired = FALSE
    /\ pending = NoPending
    /\ response = NoResponse
    /\ dirsCreated = 0
    /\ procsLaunched = 0
    /\ wall = WallAtRequest
    /\ start = 0
    /\ tmproot = NoDirs
    /\ invs = NoInvs
    /\ comm = NoComm
    /\ _DB_INIT_DONE = TRUE
    /\ hook = [t \in Threads |-> "idle"]
    /\ ensureCalls = 1
    /\ lastEnsure = "returned"
    /\ requests = 1
    /\ \E code \in AnnotCodes, language \in AnnotLanguages, changes \in AnnotChangeLists :
          annot = AnnotStart(code, language, changes)
    /\ batch = <<>>

NextAnnot ==
    \/ AnnotFilterItem
    \/ AnnotSelect
    \/ AnnotApplyItem
    \/ AnnotApplyDone
    \/ AnnotRebuildLine
    \/ AnnotReturn

SpecAnnot == InitAnnot /\ [][NextAnnot]_vars

(***************************************************************************)
(* collect_company_fetch_details, routes.py 132-171                        *)
(***************************************************************************)
\* Number of problems the workbook table holds for the company.
NumRows == 3

\* select_workbook: the rows of the company by ascending problem_id, which
\* is a NOT NULL integer, unique for the company (db.py 48-60, 124-134).
WorkbookRows == [i \in 1..NumRows |-> [problem_id |-> i]]

\* A JSON integer 10^e that is beyond the integers of the model.
JPow10(e) == [t |-> "pow10", e |-> e]

\* isinstance(v, int) and v > 0; a bool is an int.
IsPositiveInt(v) ==
    \/ v.t = "int" /\ v.v > 0
    \/ v.t = "bool" /\ v.v
    \/ v.t = "pow10"

\* The value of a positive int of the model, for a slice.
IntOf(v) == IF v.t = "int" THEN v.v ELSE IF v.t = "bool" THEN 1 ELSE NumRows + 1

\* rows[n:] and rows[:n] for n > 0
DropRows(rows, n) == SubSeq(rows, (IF n > Len(rows) THEN Len(rows) ELSE n) + 1, Len(rows))

TakeRows(rows, n) == SubSeq(rows, 1, IF n > Len(rows) THEN Len(rows) ELSE n)

\* 165: time.sleep(delay_ms / 1000.0) raises OverflowError when the seconds
\* exceed what the platform's clock type holds (2^63 nanoseconds), and the
\* division raises it when delay_ms is beyond a float.
SleepRaises(delay_ms) == delay_ms.t = "pow10" /\ delay_ms.e >= 13

\* 140: the companies the handler knows, as texts.
Companies == {<<49340, 49457>>, <<52852, 52852, 50724>>, <<76, 71>>, <<54788, 45824>>}

\* The handler on entry: the fields of the request body (134-139).
BatchStart(company, limit, offset, delay_ms) ==
    [at |-> "check", company |-> Strip(company), limit |-> limit, offset |-> offset,
     delay_ms |-> delay_ms, rows |-> <<>>, k |-> 1, count |-> 0, failed |-> <<>>,
     attempted |-> <<>>, stored |-> <<>>, resp |-> NoResponse]

beside == <<handler, _DB_INIT_DONE, hook, ensureCalls, lastEnsure, requests, annot>>

\* 140-141
BatchInvalidCompany ==
    /\ batch.at = "check" /\ batch.company \notin Companies
    /\ batch' = [batch EXCEPT !.at = "returned", !.resp = Error400("invalid_company")]
    /\ UNCHANGED beside

\* 144-150: the rows are read and sliced by offset and limit.
BatchSelect ==
    /\ batch.at = "check" /\ batch.company \in Companies
    /\ LET all == WorkbookRows
           afterOffset == IF IsPositiveInt(batch.offset)
                          THEN DropRows(all, IntOf(batch.offset)) ELSE all
           afterLimit == IF IsPositiveInt(batch.limit)
                         THEN TakeRows(afterOffset, IntOf(batch.limit)) ELSE afterOffset
       IN  batch' = [batch EXCEPT !.rows = afterLimit, !.at = "loop", !.k = 1]
    /\ UNCHANGED beside

\* 144, 170-171: select_workbook raises (the database is not reachable).
BatchSelectFails ==
    /\ batch.at = "check" /\ batch.company \in Companies
    /\ batch' = [batch EXCEPT
                    !.at = "returned",
                    !.resp = [http |-> 502, error |-> "fetch_or_parse_failed"]]
    /\ UNCHANGED beside

\* 152-154: pid = int(r["problem_id"]); the try block is entered and the
\* page of the problem is asked for.
RowBegin ==
    /\ batch.at = "loop" /\ batch.k <= Len(batch.rows)
    /\ batch' = [batch EXCEPT !.attempted = Append(@, batch.rows[batch.k].problem_id),
                              !.at = "row"]
    /\ UNCHANGED beside

\* 166-167: except Exception: failed.append(...); then the next row.
RowFailed(error) ==
    [batch EXCEPT
        !.failed = Append(@, [problem_id |-> batch.rows[batch.k].problem_id, error |-> error]),
        !.k = @ + 1, !.at = "loop"]

\* 154-158: http_get raises.
RowFetchFails ==
    /\ batch.at = "row"
    /\ batch' = RowFailed("fetch")
    /\ UNCHANGED beside

\* 159: parse_problem_detail_html raises.
RowParseFails ==
    /\ batch.at = "row"
    /\ batch' = RowFailed("parse")
    /\ UNCHANGED beside

\* 160-162: upsert_problem_detail raises.
RowStoreFails ==
    /\ batch.at = "row"
    /\ batch' = RowFailed("store")
    /\ UNCHANGED beside

\* 154-163: the detail is fetched, parsed and stored; count += 1.
RowStored ==
    /\ batch.at = "row"
    /\ batch' = [batch EXCEPT !.count = @ + 1,
                              !.stored = Append(@, batch.rows[batch.k].problem_id),
                              !.at = "stored"]
    /\ UNCHANGED beside

\* 164-165: no delay is asked for, or the sleep returns; then the next row.
RowSleepReturns ==
    /\ batch.at = "stored"
    /\ ~(IsPositiveInt(batch.delay_ms) /\ SleepRaises(batch.delay_ms))
    /\ batch' = [batch EXCEPT !.k = @ + 1, !.at = "loop"]
    /\ UNCHANGED beside

\* 164-167: the sleep raises inside the try block, after count += 1.
RowSleepFails ==
    /\ batch.at = "stored"
    /\ IsPositiveInt(batch.delay_ms) /\ SleepRaises(batch.delay_ms)
    /\ batch' = RowFailed("sleep")
    /\ UNCHANGED beside

\* 168
BatchReturn ==
    /\ batch.at = "loop" /\ batch.k > Len(batch.rows)
    /\ batch' = [batch EXCEPT
                    !.at = "returned",
                    !.resp = [http |-> 200, company |-> batch.company,
                              fetched_details |-> batch.count, failed |-> batch.failed]]
    /\ UNCHANGED beside

\* "LG", " LG ", the last of Companies, "" (company absent) and "SK".
BatchCompanies == {<<76, 71>>, <<32, 76, 71, 32>>, <<54788, 45824>>, <<>>, <<83, 75>>}

BatchLimits == {Absent, JNull, JInt(0), JInt(2), JInt(-1)}

BatchOffsets == {Absent, JInt(0), JInt(1), JInt(NumRows + 2), JBool(TRUE), JStr(<<49>>)}

BatchDelays == {Absent, JInt(0), JInt(50), JStr(<<53>>), JPow10(12), JPow10(30)}

InitBatch ==
    /\ pc = "check_code"
    /\ data = Baseline
    /\ mswindows = FALSE
    /\ args_list = <<>>
    /\ stdin_text = JNull
    /\ timeout_sec = FNum(0)
    /\ limit_bytes = 0
    /\ tmpdir = "none"
    /\ files = {}
    /\ child = "none"
    /\ returncode = 0
    /\ desc = "none"
    /\ proc = NoProc
    /\ outBuf = <<>>
    /\ errBuf = <<>>
    /\ timerFired = FALSE
    /\ pending = NoPending
    /\ response = NoResponse
    /\ dirsCreated = 0
    /\ procsLaunched = 0
    /\ wall = WallAtRequest
    /\ start = 0
    /\ tmproot = NoDirs
    /\ invs = NoInvs
    /\ comm = NoComm
    /\ _DB_INIT_DONE = TRUE
    /\ hook = [t \in Threads |-> "idle"]
    /\ ensureCalls = 1
    /\ lastEnsure = "returned"
    /\ requests = 1
    /\ annot = <<>>
    /\ \E company \in BatchCompanies, limit \in BatchLimits, offset \in BatchOffsets,
          delay_ms \in BatchDelays :
          batch = BatchStart(company, DictGet([limit |-> limit], "limit"),
                             DictGetDefault([offset |-> offset], "offset", JInt(0)),
                             DictGet([delay_ms |-> delay_ms], "delay_ms"))

NextBatch ==
    \/ BatchInvalidCompany
    \/ BatchSelect
    \/ BatchSelectFails
    \/ RowBegin
    \/ RowFetchFails
    \/ RowParseFails
    \/ RowStoreFails
    \/ RowStored
    \/ RowSleepReturns
    \/ RowSleepFails
    \/ BatchReturn

SpecBatch == InitBatch /\ [][NextBatch]_vars

(***************************************************************************)
(* Vocabulary of the properties                                            *)
(***************************************************************************)
\* clamp(x, lo, hi)
Clamp(x, lo, hi) == IF x < lo THEN lo ELSE IF x > hi THEN hi ELSE x

\* float(timeout_sec) and int(limit_bytes) of the request, defaults applied.
RawTimeout == ToFloat(DictGetDefault(data, "timeout_sec", JInt(DefaultTimeoutSec)))

RawLimit == ToInt(DictGetDefault(data, "limit_bytes", JInt(DefaultLimitBytes)))

\* The request was answered with the InvalidInput error `kind`.
Rejected(kind) == response.http = 400 /\ response.error = kind

InvalidInput == response.http = 400

\* code is text with a character that is not white space.
CodeOk == data.code.t = "str" /\ \E i \in 1..Len(data.code.v) : ~IsSpace(data.code.v[i])

\* stdin is absent, null or text.
StdinOk == data.stdin.t \in {"absent", "null", "str"}

\* The value the handler takes for args is a list.
ArgsListTaken == PyOr(DictGet(data, "args"), JList(<<>>)).t = "list"

\* args is present and is not a sequence: a number, boolean, string or object.
ArgsNotSequence == data.args.t \in {"int", "float", "bool", "str", "obj"}

\* The request breaks a rule of the validator's contract.
MalformedRequest ==
    ~CodeOk \/ ArgsNotSequence \/ ~StdinOk \/ ~RawTimeout.ok \/ ~RawLimit.ok

\* The response r carries stdout and stderr.
HasOutput(r) == "stdout" \in DOMAIN r

UnicodeScalar(c) == c >= 0 /\ c <= 1114111 /\ ~IsSurrogate(c)

WellFormed(text) == \A i \in 1..Len(text) : UnicodeScalar(text[i])

IsPrefix(a, b) == Len(a) <= Len(b) /\ \A i \in 1..Len(a) : a[i] = b[i]

\* Number of bytes of the UTF-8 form of a code point / of a text.
Utf8Width(c) == IF c < 128 THEN 1 ELSE IF c < 2048 THEN 2 ELSE IF c < 65536 THEN 3 ELSE 4

RECURSIVE WidthRange(_, _, _)
WidthRange(text, lo, hi) ==
    IF lo > hi THEN 0
    ELSE IF lo = hi THEN Utf8Width(text[lo])
    ELSE LET mid == (lo + hi) \div 2
         IN  WidthRange(text, lo, mid) + WidthRange(text, mid + 1, hi)

ByteLen(text) == WidthRange(text, 1, Len(text))

\* The handler is at or past the timeout check / the limit check.
TimeoutChecked ==
    /\ pc \notin {"check_code", "check_args", "check_stdin", "check_timeout"}
    /\ ~Rejected("code is required") /\ ~Rejected("invalid_args")
    /\ ~Rejected("invalid_stdin")

LimitChecked ==
    /\ TimeoutChecked /\ pc # "check_limit" /\ ~Rejected("invalid_timeout")

(***************************************************************************)
(* C1..C10                                                                 *)
(***************************************************************************)
\* C1: for every timeout_sec that parses as a number, the timeout handed to
\* the wait on the child equals clamp(timeout_sec, 1, 15).
\* Stated for the finite values; fails on the code for 0 < timeout_sec < 1.
C1_WaitTimeoutIsClamp ==
    (proc.started /\ ~RawTimeout.f.nan)
        => proc.timeout = FNum(Clamp(RawTimeout.f.v, 10 * FloorTimeoutSec, 10 * MaxTimeoutSec))

\* C2: once the request has returned, its workspace directory no longer
\* exists, whatever the exit path.  Fails on the code when a process the
\* child left behind creates a file while the directory is being removed.
C2_WorkspaceGoneOnReturn == Returned => tmpdir # "exists"

\* What the code does satisfy: when the child spawned nothing, a directory
\* that was created is removed by the time the request returns.
WorkspaceGoneWithoutDescendant ==
    (Returned /\ desc = "none" /\ dirsCreated > 0) => tmpdir = "removed"

\* C3: in the state where the timeout outcome is returned, neither the child
\* nor a process it spawned is running.  Fails on the code: only the child
\* is killed.
C3_TreeDeadAtTimeoutOutcome ==
    (Returned /\ response.http = 408) => (child # "running" /\ ~DescAlive)

\* C4: when the timeout fires, the outcome returned is the timeout outcome
\* and carries, after bounding, the output the child had produced.  Stated
\* for output that is UTF-8 and a workspace that was removed; fails on the
\* code for every non-empty partial output on POSIX.
C4_TimeoutCarriesPartialOutput ==
    (Returned /\ timerFired /\ tmpdir = "removed"
              /\ ValidUtf8(outBuf) /\ ValidUtf8(errBuf))
        => /\ response.http = 408
           /\ HasOutput(response)
           /\ response.stdout = _truncate(PipeText(outBuf), limit_bytes)[1]
           /\ response.stderr = _truncate(PipeText(errBuf), limit_bytes)[1]

\* C5: the text _truncate returns re-encodes to at most the ceiling number
\* of bytes, is well-formed, and holds only whole characters of the text it
\* was given.
C5_BoundedTextFitsAndIsWellFormed ==
    HasOutput(pending.resp)
        => /\ ByteLen(pending.resp.stdout) <= limit_bytes
           /\ WellFormed(pending.resp.stdout)
           /\ IsPrefix(pending.resp.stdout, PipeText(outBuf))
           /\ ByteLen(pending.resp.stderr) <= limit_bytes
           /\ WellFormed(pending.resp.stderr)
           /\ IsPrefix(pending.resp.stderr, PipeText(errBuf))

\* C5 witness: a text was cut inside a multi-byte character, whose leading
\* bytes were dropped.
C5_Witness ==
    /\ HasOutput(pending.resp)
    /\ pending.resp.truncated.stdout
    /\ ByteLen(pending.resp.stdout) < limit_bytes

\* C6: a timeout_sec / limit_bytes that does not parse is rejected
\* (invalid_timeout / invalid_limit, no default substituted); one that
\* parses is never rejected and the value used lies in the allowed range.
\* Fails on the code for 0 < timeout_sec < 1, which is used as it is.
C6_RejectUnparsableClampOutOfRange ==
    /\ TimeoutChecked
          => IF RawTimeout.ok
             THEN /\ ~Rejected("invalid_timeout")
                  /\ \/ RawTimeout.f.nan
                     \/ /\ timeout_sec.v >= 10 * FloorTimeoutSec
                        /\ timeout_sec.v <= 10 * MaxTimeoutSec
             ELSE Rejected("invalid_timeout")
    /\ LimitChecked
          => IF RawLimit.ok
             THEN /\ ~Rejected("invalid_limit")
                  /\ limit_bytes >= MinLimitBytes /\ limit_bytes <= MaxLimitBytes
             ELSE Rejected("invalid_limit")

\* The accept/reject half of C6 alone, which the code satisfies: unparsable
\* values are rejected, parsable ones never are.
RejectExactlyUnparsable ==
    /\ TimeoutChecked => (RawTimeout.ok <=> ~Rejected("invalid_timeout"))
    /\ LimitChecked => (RawLimit.ok <=> ~Rejected("invalid_limit"))

\* C7: for every limit_bytes that parses as an integer, the ceiling
\* _truncate applies to stdout and stderr is clamp(limit_bytes, 1024, 262144).
C7_CeilingIsClamp ==
    LimitChecked /\ ~Rejected("invalid_limit")
        => LET ceiling == Clamp(RawLimit.v, MinLimitBytes, MaxLimitBytes)
           IN  /\ RawLimit.ok
               /\ limit_bytes = ceiling
               /\ HasOutput(pending.resp)
                     => /\ ByteLen(pending.resp.stdout) <= ceiling
                        /\ ByteLen(pending.resp.stderr) <= ceiling
                        /\ pending.resp.truncated.stdout
                              <=> (ByteLen(PipeText(outBuf)) > ceiling)
                        /\ pending.resp.truncated.stderr
                              <=> (ByteLen(PipeText(errBuf)) > ceiling)

\* C7 witness: a limit_bytes below the range, and stdout cut at the ceiling.
C7_Witness ==
    /\ RawLimit.ok /\ RawLimit.v < MinLimitBytes
    /\ HasOutput(response)
    /\ response.truncated.stdout

\* C8: every malformed request (code missing, blank or not text; args
\* present and not a sequence; stdin not text; timeout_sec or limit_bytes
\* that does not parse) is rejected before anything is created: no directory
\* is made and no process is started for it, and an InvalidInput outcome has
\* created neither.  Fails on the code for args = 0, false, ""
\* or {}, which pass the args check.
C8_MalformedRejectedBeforeWorkspaceAndProcess ==
    /\ InvalidInput
          => /\ dirsCreated = 0 /\ procsLaunched = 0
             /\ tmpdir = "none" /\ files = {} /\ child = "none"
    /\ MalformedRequest => dirsCreated = 0 /\ procsLaunched = 0

\* The half of C8 the code satisfies: an InvalidInput outcome has created no
\* directory and started no process, and a directory or a process exists
\* only for a request that passed every check the validator makes.
RejectedHasNoWorkspaceNoProcess ==
    /\ InvalidInput
          => /\ dirsCreated = 0 /\ procsLaunched = 0
             /\ tmpdir = "none" /\ files = {} /\ child = "none"
    /\ (dirsCreated > 0 \/ procsLaunched > 0)
          => CodeOk /\ ArgsListTaken /\ StdinOk /\ RawTimeout.ok /\ RawLimit.ok

\* C9: a code that is absent, not text or blank is rejected with
\* "code is required"; every text with a non-blank character passes the
\* check on code.
C9_CodeRequired ==
    pc # "check_code"
        => IF CodeOk THEN ~Rejected("code is required")
           ELSE Returned /\ response = Error400("code is required")

\* C9 witness: a text of white space only was rejected.
C9_Witness ==
    /\ Rejected("code is required")
    /\ data.code.t = "str" /\ data.code.v # <<>>

\* C10: when args is present and not a sequence (number, boolean, string,
\* object), the request is answered invalid_args and the code is not run.
\* Fails on the code for the falsy values 0, false, "" and {}.
C10_NonSequenceArgsRejected ==
    (CodeOk /\ pc \notin {"check_code", "check_args"} /\ ArgsNotSequence)
        => Rejected("invalid_args") /\ procsLaunched = 0

(***************************************************************************)
(* C11..C20                                                                *)
(***************************************************************************)
\* The response r carries an exit code.
HasExitCode(r) == "exit_code" \in DOMAIN r

\* The child ended by itself, it spawned nothing, and the wait on it had a
\* timeout that is a number.
ExitedOnItsOwn ==
    child = "exited" /\ desc = "none" /\ ~timerFired /\ ~timeout_sec.nan

\* C11: a child that terminates on its own, with exit code zero or not,
\* yields the Success outcome with exit_code equal to its exit code.
\* Stated for a child that spawned nothing; fails on the code when the child
\* has written bytes that are not UTF-8.
C11_OwnExitYieldsSuccess ==
    (Returned /\ ExitedOnItsOwn)
        => /\ response.http = 200
           /\ HasExitCode(response) /\ response.exit_code = returncode

\* What the code does satisfy of C11: when the output of such a child is
\* UTF-8, the outcome is Success with the child's exit code, zero or not.
OwnExitWithTextYieldsSuccess ==
    (Returned /\ ExitedOnItsOwn /\ ValidUtf8(outBuf) /\ ValidUtf8(errBuf))
        => /\ response.http = 200
           /\ DOMAIN response
                 = {"http", "stdout", "stderr", "exit_code", "truncated", "duration_ms"}
           /\ response.exit_code = returncode

\* The keys of the timeout outcome.
TimeoutKeys ==
    {"http", "error", "detail", "stdout", "stderr", "truncated", "duration_ms"}

\* C12: a request whose wait on the child ran out of time is answered with
\* the timeout outcome (error = "timeout", stdout, stderr, truncated,
\* duration_ms, no exit_code), never with execution_failed; and a result has
\* an exit_code only when the child ended by itself.  Fails on the code: on
\* POSIX a timeout with output captured ends in execution_failed.
C12_TimeoutIsDistinctOutcome ==
    /\ (Returned /\ timerFired)
          => /\ response.http = 408 /\ response.error = "timeout"
             /\ DOMAIN response = TimeoutKeys
    /\ HasExitCode(response) => (child = "exited" /\ ~timerFired)

\* What the code does satisfy of C12: an exit_code appears only in the
\* Success outcome of a child that ended by itself, the timeout outcome has
\* the timeout keys and no exit_code, and a timeout that caught no output
\* and left no process behind is answered with the timeout outcome.
ExitCodeOnlyFromCompletedChild ==
    /\ HasExitCode(response)
          => response.http = 200 /\ child = "exited" /\ ~timerFired
    /\ response.http = 408
          => /\ timerFired /\ response.error = "timeout"
             /\ DOMAIN response = TimeoutKeys
    /\ (Returned /\ timerFired /\ outBuf = <<>> /\ errBuf = <<>> /\ desc = "none")
          => response.http = 408

\* Starting the child failed: no process exists and the exception is one
\* that starting raises.
LaunchFailed ==
    /\ dirsCreated = 1 /\ procsLaunched = 0
    /\ pending.exc \in {"OSError", "ValueError"}

\* C13: when the child cannot be started, the outcome is execution_failed
\* with the keys error and detail and no exit_code; and an outcome with an
\* exit_code comes only from a child that was started.
C13_LaunchFailureIsExecutionFailed ==
    /\ (Returned /\ LaunchFailed)
          => /\ response.http = 500 /\ response.error = "execution_failed"
             /\ DOMAIN response = {"http", "error", "detail"}
             /\ child = "none" /\ ~proc.started
    /\ HasExitCode(response) => (procsLaunched = 1 /\ proc.started)

\* C13 witness: the request returned after a failed start of the child.
C13_Witness == Returned /\ LaunchFailed /\ response.detail = "OSError"

\* Invocation i holds a workspace directory.
Live(i) == invs[i].pc \in {"write_src", "launch", "communicate", "cleanup"}

\* C14: in every interleaving of concurrent invocations, the workspace
\* directories of live invocations are distinct, each directory holds only
\* the source of its own request, each child runs the source of its own
\* request, and each result holds the output of its own child.
C14_InvocationsAreSeparate ==
    /\ \A i, j \in Invocations :
          (i # j /\ Live(i) /\ Live(j)) => invs[i].tmpdir # invs[j].tmpdir
    /\ \A i \in Invocations :
          /\ invs[i].pc \in {"launch", "communicate", "cleanup"}
                => tmproot[invs[i].tmpdir] = Dir({SrcFile(invs[i].code)})
          /\ invs[i].child = "exited" => invs[i].ran = invs[i].code
          /\ HasOutput(invs[i].result)
                => invs[i].result.stdout = PipeText(OutputOf(invs[i].code))

\* C14 witness: two invocations with different codes hold workspaces at the
\* same time and one child has run.
C14_Witness ==
    \E i, j \in Invocations :
        /\ i # j /\ Live(i) /\ Live(j) /\ invs[i].code # invs[j].code
        /\ invs[i].child = "exited" /\ invs[j].pc = "launch"

\* C15: a request starts at most one child and reports exactly one outcome:
\* there is an outcome exactly when the handler has returned, and after it
\* nothing is launched and the outcome does not change.
C15_OneChildOneOutcome ==
    /\ [](procsLaunched <= 1 /\ (Returned <=> response # NoResponse))
    /\ [][Returned => (pc' = pc /\ response' = response
                          /\ procsLaunched' = procsLaunched /\ child' = child)]_vars

\* C15 witness: a request whose execution timed out or failed has returned,
\* with its one child.
C15_Witness ==
    Returned /\ procsLaunched = 1 /\ response.http \in {408, 500}

\* What _truncate must make of the text t under the ceiling: t itself,
\* not marked, when t encodes to at most ceiling bytes; otherwise a marked
\* text of at most ceiling bytes.
BoundedAs(t, ceiling, text, truncated) ==
    IF ByteLen(t) <= ceiling
    THEN text = t /\ ~truncated
    ELSE truncated /\ ByteLen(text) <= ceiling

\* C16: for each output stream, _truncate returns the text unchanged with
\* truncated = false when it encodes to at most the ceiling, and
\* truncated = true exactly when it encodes to more, the returned text then
\* having at most ceiling bytes.
C16_UnchangedWithinCeilingMarkedAbove ==
    HasOutput(pending.resp)
        => /\ BoundedAs(PipeText(outBuf), limit_bytes,
                        pending.resp.stdout, pending.resp.truncated.stdout)
           /\ BoundedAs(PipeText(errBuf), limit_bytes,
                        pending.resp.stderr, pending.resp.truncated.stderr)

\* C16 witness: an output of exactly ceiling bytes, one byte more than the
\* filler, came back whole and unmarked.
C16_Witness ==
    /\ HasOutput(pending.resp)
    /\ ByteLen(PipeText(outBuf)) = limit_bytes /\ limit_bytes > FillLen
    /\ ~pending.resp.truncated.stdout

\* C16 second case reached: an output of one byte more than the ceiling came
\* back marked.
TruncatedJustAboveCeiling ==
    /\ HasOutput(pending.resp)
    /\ ByteLen(PipeText(outBuf)) = limit_bytes + 1
    /\ pending.resp.truncated.stdout

\* The response r carries a duration.
HasDuration(r) == "duration_ms" \in DOMAIN r

\* C17: duration_ms of every Success and Timeout result is an integer that
\* is not negative, whatever the clock the elapsed time is read from does.
\* Fails on the code: the clock is the wall clock, and when it is set back
\* by a millisecond or more during the run the difference is negative.
C17_DurationNotNegative ==
    (response.http \in {200, 408})
        => /\ HasDuration(response)
           /\ response.duration_ms \in Int /\ response.duration_ms >= 0

\* What the code does satisfy of C17: the duration_ms put in a Success or
\* Timeout result is an integer, and it is not negative when the clock reads
\* no less than it did at the start (less by under a millisecond included).
DurationNotNegativeWhenClockForward ==
    [][(HasDuration(pending'.resp) /\ ~HasDuration(pending.resp))
          => /\ pending'.resp.duration_ms \in Int
             /\ (wall - start > -2) => pending'.resp.duration_ms >= 0]_vars

\* C18: the standard input, output and error of every started child are
\* pipes of the engine, none inherited from the server, with or without
\* stdin text in the request.  Fails on the code for a request without
\* stdin text: input is None and the child inherits the server's stdin.
C18_AllThreeStreamsPiped ==
    proc.started
        => proc.stdin = "pipe" /\ proc.stdout = "pipe" /\ proc.stderr = "pipe"

\* What the code does satisfy of C18: stdout and stderr are always pipes,
\* and stdin is a pipe exactly when the request has stdin text.
OutputPipedStdinPipedWithText ==
    proc.started
        => /\ proc.stdout = "pipe" /\ proc.stderr = "pipe"
           /\ proc.stdin = "pipe" <=> data.stdin.t = "str"

\* The args of the request when it is a sequence, none when it is absent or
\* null.
CallerArgs == IF data.args.t = "list" THEN data.args.v ELSE <<>>

\* C19: the child is started in the workspace directory with the argument
\* vector interpreter, -I, -S, -B, source path, then the caller's args, each
\* as text, in the caller's order, nothing added or left out.
C19_ArgvAndCwd ==
    (proc.started /\ data.args.t \in {"absent", "null", "list"})
        => /\ proc.cwd = "tmpdir"
           /\ pc \in {"communicate", "win_collect", "cleanup"}
                 => (tmpdir = "exists" /\ SrcFile(data.code.v) \in files)
           /\ Len(proc.cmd) = 5 + Len(CallerArgs)
           /\ SubSeq(proc.cmd, 1, 5) = <<PythonExe, FlagI, FlagS, FlagB, SrcPath>>
           /\ \A i \in 1..Len(CallerArgs) : proc.cmd[5 + i] = PyStr(CallerArgs[i])

\* C19 witness: a child was started with two arguments, one of them a
\* number made text.
C19_Witness ==
    /\ proc.started /\ Len(CallerArgs) = 2
    /\ CallerArgs[2].t = "int" /\ proc.cmd[7] = <<49, 50>>

\* C20: with the optional fields absent the handler uses no arguments, no
\* stdin, a timeout of 5 seconds and a ceiling of 32768 bytes, and does not
\* reject the request for them.
C20_DefaultsWhenAbsent ==
    /\ (data.args = Absent /\ CodeOk /\ pc \notin {"check_code", "check_args"})
          => /\ args_list = <<>> /\ ~Rejected("invalid_args")
             /\ proc.started => proc.cmd = <<PythonExe, FlagI, FlagS, FlagB, SrcPath>>
    /\ (data.stdin = Absent /\ TimeoutChecked /\ pc # "check_stdin")
          => /\ stdin_text = JNull
             /\ proc.started => proc.input = JNull
    /\ (data.timeout_sec = Absent /\ LimitChecked)
          => /\ timeout_sec = Seconds(DefaultTimeoutSec)
             /\ proc.started => proc.timeout = Seconds(DefaultTimeoutSec)
    /\ (data.limit_bytes = Absent /\ LimitChecked /\ pc # "check_limit")
          => /\ ~Rejected("invalid_limit")
             /\ limit_bytes = DefaultLimitBytes

\* C20 witness: the request with only code was run to a result whose output
\* was bounded at the default ceiling.
C20_Witness ==
    /\ data = Baseline /\ Returned /\ response.http = 200
    /\ response.truncated.stdout = FALSE /\ outBuf # <<>>

(***************************************************************************)
(* C21..C30                                                                *)
(***************************************************************************)
\* Invocation i takes a step.
StepOf(i) == invs'[i] # invs[i]

\* The directory invocation i holds before or after the step; 0 when none.
DirsOf(i) == {invs[i].tmpdir, invs'[i].tmpdir}

\* C21: an invocation leaves nothing that another invocation reads: a step
\* of one invocation changes no local of another and no directory but its
\* own, a directory left behind is never touched again nor handed to a later
\* invocation, and every result that carries output is the output of the
\* request's own code, whatever ran before or runs beside it.
C21_NothingLeftForOtherInvocations ==
    /\ [][\A i \in Invocations :
             StepOf(i)
                 => /\ \A j \in Invocations \ {i} : invs'[j] = invs[j]
                    /\ \A n \in DirNames \ DirsOf(i) : tmproot'[n] = tmproot[n]]_vars
    /\ [][\A n \in DirNames :
             (tmproot[n].exists /\ \A i \in Invocations : ~(Live(i) /\ invs[i].tmpdir = n))
                 => /\ tmproot'[n] = tmproot[n]
                    /\ \A i \in Invocations : Live(i)' => invs'[i].tmpdir # n]_vars
    /\ [](\A i \in Invocations :
             HasOutput(invs[i].result)
                 => invs[i].result = [http |-> 200,
                                      stdout |-> PipeText(OutputOf(invs[i].code))])

\* C21 witness: an invocation runs to a result with output after another
\* one has finished and left its directory behind.
C21_Witness ==
    \E i, j \in Invocations :
        /\ i # j
        /\ invs[j].pc = "returned" /\ tmproot[invs[j].tmpdir] = Dir({StrayFile})
        /\ invs[i].pc = "returned" /\ HasOutput(invs[i].result)
        /\ invs[i].code # invs[j].code

\* rmtree has begun on the workspace, or has ended.
ReleaseBegun == pc \in {"rmdir", "returned"} /\ dirsCreated = 1

\* C22: on the timeout path the workspace is removed only after the child
\* and everything it spawned have terminated: while the directory is being
\* removed or is gone, no process of the request is running.  Fails on the
\* code: the timeout kills the child only, and what it spawned runs on.
C22_TreeDeadBeforeRelease ==
    (timerFired /\ ReleaseBegun) => (child # "running" /\ ~DescAlive)

\* What the code does satisfy of C22: the child itself is never running once
\* the removal of the workspace has begun, on any path.
ChildDeadBeforeRelease ==
    (ReleaseBegun \/ pc = "cleanup") => child # "running"

\* The state of the request in the terms of the design: 0 Created,
\* 1 Validated, 2 WorkspaceReady, 3 Running, 4 the branch taken, 5 Finalized.
Phase ==
    IF pc \in {"check_code", "check_args", "check_stdin", "check_timeout", "check_limit"}
    THEN 0
    ELSE IF pc \in {"mkdtemp", "write_src"} THEN 1
    ELSE IF pc = "launch" THEN 2
    ELSE IF pc \in {"communicate", "win_collect"} THEN 3
    ELSE IF pc \in {"cleanup", "rmdir"} THEN 4
    ELSE 5

\* The branch by which the request left Running (or the start of the child).
Branch ==
    IF pending.resp.http = 200 THEN "Completed"
    ELSE IF pending.resp.http = 408 THEN "TimedOut"
    ELSE IF LaunchFailed THEN "LaunchFailed"
    ELSE "ExecutionFailed"

\* The workspace was made and the source was written into it.
WorkspaceWasReady == dirsCreated = 1 /\ pending.exc # "UnicodeEncodeError"

\* C23: a request that passed validation and got its workspace leaves
\* Running by exactly one of Completed, TimedOut and LaunchFailed, and when
\* it is Finalized its workspace has been released.  Fails on the code: a
\* run can end in none of the three (an exception of the timeout handler or
\* of the decoding of the output), and the workspace can survive the return.
C23_OneOfThreeBranchesThenReleased ==
    /\ (Phase = 4 /\ WorkspaceWasReady)
          => Branch \in {"Completed", "TimedOut", "LaunchFailed"}
    /\ (Phase = 5 /\ WorkspaceWasReady) => tmpdir = "removed"

\* What the code does satisfy of C23: the states are passed in the order of
\* the design, none is revisited, and none is skipped except that a rejected
\* request ends in Created, a failure to make the workspace or to write the
\* source ends the request from Validated, and a failed start leaves
\* WorkspaceReady by LaunchFailed.
PhasesOnlyForward ==
    [][\/ Phase' = Phase
       \/ Phase' = Phase + 1
       \/ Phase = 0 /\ Phase' = 5 /\ InvalidInput'
       \/ Phase = 1 /\ Phase' = 5 /\ dirsCreated' = 0
       \/ Phase = 1 /\ Phase' = 4 /\ pending'.exc = "UnicodeEncodeError"
       \/ Phase = 2 /\ Phase' = 4 /\ LaunchFailed']_vars

\* The steps of one invocation that have ended for good.
CommunicationOver == comm.at \in {"bound", "release", "returned"}

C25_EveryInvocationReturnsAndReleases == <>(comm.at = "returned" /\ comm.released)

\* What holds of C25: where communicate() checks its deadline while it writes
\* and reads (POSIX), the invocation always returns.
PosixInvocationAlwaysReturns == <>(comm.mswin \/ (comm.at = "returned" /\ comm.released))

\* What fails of C25 through C4: a returned invocation whose timeout won has
\* the TimedOut outcome.
TimedOutReachesOutcome ==
    (comm.at = "returned" /\ comm.timedOut) => comm.bounded = "done"

\* The error of the first field, in the order of the checks, that fails its
\* check; "none" when every field passes.
FirstFailure ==
    IF ~CodeOk THEN "code is required"
    ELSE IF ~ArgsListTaken THEN "invalid_args"
    ELSE IF ~StdinOk THEN "invalid_stdin"
    ELSE IF ~RawTimeout.ok THEN "invalid_timeout"
    ELSE IF ~RawLimit.ok THEN "invalid_limit"
    ELSE "none"

PastValidation == pc \notin {"check_code", "check_args", "check_stdin", "check_timeout", "check_limit"}

\* C26: the fields are checked in the order code, args, stdin, timeout_sec,
\* limit_bytes; a rejection reports the first field that fails and the
\* fields after it are never evaluated (their locals are never assigned); a
\* request goes past validation only when no field fails.
C26_FirstFailingFieldReported ==
    /\ InvalidInput => response.error = FirstFailure
    /\ (PastValidation /\ ~InvalidInput) => FirstFailure = "none"
    /\ Rejected("code is required") => args_list = <<>>
    /\ (Rejected("code is required") \/ Rejected("invalid_args")) => stdin_text = JNull
    /\ (InvalidInput /\ ~Rejected("invalid_limit")) => timeout_sec = FNum(0)
    /\ InvalidInput => limit_bytes = 0
    /\ Rejected("invalid_limit") => timeout_sec = ClampTimeout(RawTimeout.f)

\* A request whose stdin, timeout_sec and limit_bytes are all malformed has
\* been answered with the stdin error.
C26_Witness ==
    /\ Returned /\ Rejected("invalid_stdin")
    /\ ~RawTimeout.ok /\ ~RawLimit.ok /\ timeout_sec = FNum(0)

\* `text` is the longest prefix of whole characters of t that encodes to at
\* most ceiling bytes, and is shorter than t.
LongestFittingPrefix(t, ceiling, text) ==
    /\ IsPrefix(text, t)
    /\ Len(text) < Len(t)
    /\ ByteLen(text) <= ceiling
    /\ ceiling - ByteLen(text) < Utf8Width(t[Len(text) + 1])

\* C27: when _truncate shortens a text, what it returns is a prefix of the
\* text, and the longest prefix of whole characters that fits the ceiling:
\* the bytes left under the ceiling are fewer than the next character needs.
C27_ShortenedIsLongestFittingPrefix ==
    HasOutput(pending.resp)
        => /\ pending.resp.truncated.stdout
                => LongestFittingPrefix(PipeText(outBuf), limit_bytes, pending.resp.stdout)
           /\ pending.resp.truncated.stderr
                => LongestFittingPrefix(PipeText(errBuf), limit_bytes, pending.resp.stderr)

\* A text was cut on a character boundary, at exactly the ceiling, before a
\* character of several bytes.
C27_Witness ==
    /\ HasOutput(pending.resp)
    /\ pending.resp.truncated.stdout
    /\ ByteLen(pending.resp.stdout) = limit_bytes
    /\ Utf8Width(PipeText(outBuf)[Len(pending.resp.stdout) + 1]) > 1

\* A text was cut inside a character of four bytes, three bytes under the
\* ceiling being left unused.
CutInsideFourByteCharacter ==
    /\ HasOutput(pending.resp)
    /\ pending.resp.truncated.stdout
    /\ limit_bytes - ByteLen(pending.resp.stdout) = 3

\* C28: the hook calls ensure_tables at most once in the life of the server
\* process, however the requests interleave.
C28_EnsureTablesAtMostOnce == ensureCalls <= 1

\* What holds of C28: a thread that finds the flag set leaves the hook
\* without a call, and the flag is set once any hook has run to its end,
\* whether ensure_tables returned or raised.
FlagSetOnceAnyHookCompleted ==
    /\ (\E t \in Threads : hook[t] = "done") => _DB_INIT_DONE
    /\ lastEnsure # "none" =>
          (_DB_INIT_DONE \/ \E t \in Threads : hook[t] = "set")
    /\ ensureCalls > 0 =>
          (_DB_INIT_DONE \/ \E t \in Threads : hook[t] \in {"ensure", "set"})

\* What holds of C28: each thread that tested the flag before it was set
\* calls once, so the calls never exceed the number of request threads.
CallsBoundedByThreads == ensureCalls <= NumThreads

\* What fails of C28 with the first part: a call begins after another
\* thread's hook has completed and set the flag.
NoCallOnceFlagSet == [][_DB_INIT_DONE => ensureCalls' = ensureCalls]_vars

\* The line break a line ends with, and its leading spaces and tabs.
Terminator(line) ==
    IF NewlineOf(line) # <<>> THEN NewlineOf(line)
    ELSE IF line # <<>> /\ IsLineBreak(line[Len(line)]) THEN <<line[Len(line)]>>
    ELSE <<>>

Indentation(line) == SubSeq(line, 1, IndentLen(line))

Changed(k) == annot.line_to_change[k].changed

\* C29: the returned text has as many lines as the submitted code, the
\* lines no selected change names are identical to the original ones, each
\* changed line keeps its leading indentation and its line terminator, and
\* at most 10 changes are applied.
C29_SameLinesFrameIndentTerminator ==
    annot.at = "returned" =>
        LET res == SplitLines(annot.annotated)
        IN  /\ annot.applied <= MaxApplied
            /\ Len(res) = Len(annot.lines)
            /\ \A k \in 1..Len(annot.lines) :
                  IF Changed(k)
                  THEN /\ Indentation(res[k]) = Indentation(annot.lines[k])
                       /\ Terminator(res[k]) = Terminator(annot.lines[k])
                  ELSE res[k] = annot.lines[k]

\* What holds of C29: at most 10 changes are applied, one piece is made
\* for each line, the piece of an unchanged line is the line itself, and
\* the piece of a changed line begins with the line's indentation and ends
\* with its "\n" or "\r\n".
PiecesKeepFrame ==
    annot.at = "returned" =>
        /\ annot.applied <= MaxApplied
        /\ Len(annot.out_parts) = Len(annot.lines)
        /\ annot.annotated = Join(annot.out_parts)
        /\ \A k \in 1..Len(annot.lines) :
              LET part == annot.out_parts[k]
                  original == annot.lines[k]
                  n == IndentLen(original)
                  nl == NewlineOf(original)
              IN  IF Changed(k)
                  THEN /\ Len(part) >= n + Len(nl)
                       /\ SubSeq(part, 1, n) = SubSeq(original, 1, n)
                       /\ SubSeq(part, Len(part) - Len(nl) + 1, Len(part)) = nl
                  ELSE part = original

\* The texts under which all of C29 holds: every line of the code ends in
\* "\n", "\r\n" or nothing, no applied comment holds a line break, and no
\* applied replacement holds one or begins with a space or tab.
NoBreakIn(t) == \A i \in 1..Len(t) : ~IsLineBreak(t[i])

TameTexts ==
    /\ \A k \in 1..Len(annot.lines) :
          /\ Terminator(annot.lines[k]) = NewlineOf(annot.lines[k])
          /\ Changed(k) =>
                LET change == annot.line_to_change[k]
                IN  /\ change.comment.some => NoBreakIn(Strip(change.comment.v))
                    /\ change.new_code.some =>
                          /\ NoBreakIn(change.new_code.v)
                          /\ IndentLen(change.new_code.v) = 0

FrameHoldsForTameTexts ==
    (annot.at = "returned" /\ TameTexts) => C29_SameLinesFrameIndentTerminator

\* A tame reply with a replacement and a comment has been applied.
TameReplyApplied ==
    /\ annot.at = "returned" /\ TameTexts /\ annot.applied = 2
    /\ annot.annotated # annot.code

\* More changes than the cap passed the filter and 10 were applied.
CapReached ==
    /\ annot.at = "returned" /\ Len(annot.filtered) > MaxApplied
    /\ annot.applied = MaxApplied

\* The problem ids of a sequence of rows / of failed entries.
IdsOf(rows) == [i \in 1..Len(rows) |-> rows[i].problem_id]

Ids(seq) == {seq[i] : i \in 1..Len(seq)}

BatchAnswered == batch.at = "returned" /\ batch.resp.http = 200

\* C30: a failure on one problem never aborts the batch: every selected row
\* is attempted once, in order, and in the response fetched_details plus the
\* number of failed entries is the number of selected rows, each selected
\* problem_id being counted in exactly one of the two.
C30_EachRowCountedOnce ==
    /\ (batch.at = "returned" /\ batch.attempted # <<>>) => batch.resp.http = 200
    /\ BatchAnswered =>
          /\ batch.attempted = IdsOf(batch.rows)
          /\ batch.resp.fetched_details + Len(batch.resp.failed) = Len(batch.rows)
          /\ \A i \in 1..Len(batch.rows) :
                LET pid == batch.rows[i].problem_id
                IN  (pid \in Ids(batch.stored)) # (pid \in Ids(IdsOf(batch.resp.failed)))

\* What holds of C30: no failure on a row aborts the batch, every selected
\* row is attempted once and in order, and each is counted at least once.
EachRowAttemptedOnceAndCounted ==
    /\ (batch.at = "returned" /\ batch.attempted # <<>>) => batch.resp.http = 200
    /\ BatchAnswered =>
          /\ batch.attempted = IdsOf(batch.rows)
          /\ batch.resp.fetched_details = Len(batch.stored)
          /\ Ids(batch.stored) \cup Ids(IdsOf(batch.resp.failed)) = Ids(IdsOf(batch.rows))

\* What holds of C30: when the sleep between rows cannot raise, each row
\* is counted exactly once.
CountedOnceWhenSleepReturns ==
    ~(IsPositiveInt(batch.delay_ms) /\ SleepRaises(batch.delay_ms))
        => C30_EachRowCountedOnce

\* A batch of several rows with a failed one between stored ones was answered.
MixedBatchAnswered ==
    /\ BatchAnswered /\ Len(batch.rows) = NumRows
    /\ batch.resp.fetched_details = 2 /\ Len(batch.resp.failed) = 1
    /\ batch.resp.failed[1].problem_id = 2

====
